---- MODULE Spec2Model ----
(***************************************************************************)
(* Model of llmsh's process-execution core: CommandParser::parse          *)
(* (src/shell/command_parser.rs), Executor::execute (src/shell/executor.rs)*)
(* and the read loop of Shell::run (src/shell/mod.rs).                     *)
(*                                                                         *)
(* Strings are sequences of one-character strings; the empty String is    *)
(* <<>>.  Indices into `chars` are 0-based as in the Rust source, so the   *)
(* character at Rust index i is chars[i + 1].                              *)
(***************************************************************************)
EXTENDS Integers, Sequences, FiniteSets, TLC

VARIABLES input, parsed,
          pc, line, pipeline, opens, idx, children, prev_stdout, exit_code,
          procs, pipes, last_result, run_result, lines_read,
          jobs, last_job_id,
          foreground_job, monitors, reported, issued, job_pc, signalled, job_mutex,
          INTERRUPT_RECEIVED, was_interrupted, handler, stdout_lock,
          command, executables, path_var, resolved

vars == << input, parsed,
           pc, line, pipeline, opens, idx, children, prev_stdout, exit_code,
           procs, pipes, last_result, run_result, lines_read,
           jobs, last_job_id,
           foreground_job, monitors, reported, issued, job_pc, signalled, job_mutex,
           INTERRUPT_RECEIVED, was_interrupted, handler, stdout_lock,
           command, executables, path_var, resolved >>

parserVars == << input, parsed >>

\* the name to resolve, the files that exist and are executable, the value
\* of PATH, and the result of find_executable
resolverVars == << command, executables, path_var, resolved >>

shellVars_but_pc == << line, pipeline, opens, idx, children, prev_stdout, exit_code,
                       procs, pipes, last_result, run_result, lines_read,
                       jobs, last_job_id >>

shellVars_but_pc_result == << line, pipeline, opens, idx, children, prev_stdout,
                              exit_code, procs, pipes, last_result, lines_read,
                              jobs, last_job_id >>

shellVars == << pc, line, pipeline, opens, idx, children, prev_stdout, exit_code,
                procs, pipes, last_result, run_result, lines_read,
                jobs, last_job_id >>

\* the rest of JobControl's state: the foreground job, the monitor threads
\* of background jobs, and the history of what was printed about finished
\* jobs and of the ids handed out
jobVars == << foreground_job, monitors, reported, issued, job_pc, signalled,
             job_mutex >>

\* the interrupt flag, the local of was_interrupted, the position of the
\* SIGINT handler and the owner of the standard-output lock
sigVars == << INTERRUPT_RECEIVED, was_interrupted, handler, stdout_lock >>

-----------------------------------------------------------------------------
(* Bounds *)

\* longest input handed to the parser
MaxLen == 5

\* lines the read loop takes before the model stops reading
MaxLines == 2

\* largest exit code a process of unknown behaviour exits with
MaxExit == 2

\* lines an OS pipe buffers before its writer blocks
PipeCap == 1

\* jobs registered in one run of JobControl, and pids the OS hands out
MaxJobs == 2

MaxPid == 2

\* children of the shell that are no jobs, at one time
MaxNoJob == 1

\* the longest program name and the most directories in PATH
MaxNameLen == 2
MaxPathDirs == 2

Pids == 1..MaxPid

\* characters the inputs are built from: a letter, the digit 2, a blank and
\* every character the parser treats specially
Chars == {"a", "2", " ", ">", "<", "|", "&", "\"", "'"}

-----------------------------------------------------------------------------
(* CommandParser::parse *)

NoCommand == [program |-> <<>>, args |-> <<>>, redirections |-> <<>>]

Pipe == [kind |-> "Pipe", target |-> <<>>]

Redir(kind, target) == [kind |-> kind, target |-> target]

is_whitespace(c) == c = " "

\* the token is thrown away
FlushToken_Dropped(cmd, tok) == cmd

\* `if !current_token.is_empty() { program or args <- token }`
FlushToken(cmd, tok) ==
    IF tok # <<>>
    THEN IF cmd.program = <<>>
         THEN [cmd EXCEPT !.program = tok]
         ELSE [cmd EXCEPT !.args = Append(@, tok)]
    ELSE cmd

\* `while i < chars.len() && chars[i].is_whitespace() { i += 1 }`
RECURSIVE SkipWhitespace(_, _)
SkipWhitespace(chars, i) ==
    IF i < Len(chars) /\ is_whitespace(chars[i + 1])
    THEN SkipWhitespace(chars, i + 1)
    ELSE i

StopsFilename(c) == is_whitespace(c) \/ c = "|" \/ c = "<" \/ c = ">"

\* the file name loop reads nothing
FilenameEnd_Empty(chars, i) == i

\* index after the filename that starts at i
RECURSIVE FilenameEnd(_, _)
FilenameEnd(chars, i) ==
    IF i < Len(chars) /\ ~StopsFilename(chars[i + 1])
    THEN FilenameEnd(chars, i + 1)
    ELSE i

\* every operator is taken to be two characters long
RedirectionBranch_SkipTwo(chars, i) ==
    [kind |-> IF chars[i + 1] = "<" THEN "Input" ELSE "Append", skip |-> 2]

\* the kind of redirection chosen at chars[i] in {"<", ">"}, and the number
\* of characters the operator itself consumes
RedirectionBranch(chars, i) ==
    LET c == chars[i + 1] IN
    IF c = ">" /\ i + 1 < Len(chars) /\ chars[i + 2] = ">"
    THEN [kind |-> "Append", skip |-> 2]
    ELSE IF i > 0 /\ chars[i] = "2" /\ c = ">"
            /\ i + 1 < Len(chars) /\ chars[i + 2] = ">"
    THEN [kind |-> "ErrorAppend", skip |-> 2]
    ELSE IF i > 0 /\ chars[i] = "2" /\ c = ">"
    THEN [kind |-> "ErrorOutput", skip |-> 1]
    ELSE IF c = ">"
    THEN [kind |-> "Output", skip |-> 1]
    ELSE [kind |-> "Input", skip |-> 1]

\* `if c == '&' && i == chars.len() - 1`
IsBackgroundMarker(chars, i) == chars[i + 1] = "&" /\ i = Len(chars) - 1

ParserInit ==
    [commands |-> <<>>, cur |-> NoCommand, background |-> FALSE,
     in_quotes |-> FALSE, quote_char |-> " ", token |-> <<>>, i |-> 0,
     stop |-> FALSE]

\* either quote character opens and closes a quote
toggles_quote_Either(c, in_quotes, quote_char) == c = "\"" \/ c = "'"

\* `if (c == '"' || c == '\'') && (!in_quotes || quote_char == c)`
toggles_quote(c, in_quotes, quote_char) ==
    (c = "\"" \/ c = "'") /\ (~in_quotes \/ quote_char = c)

\* one iteration of `while i < chars.len()`
ParseStep(chars, s) ==
    LET c == chars[s.i + 1] IN
    IF toggles_quote(c, s.in_quotes, s.quote_char)
    THEN IF s.in_quotes
         THEN [s EXCEPT !.in_quotes = FALSE, !.i = @ + 1]
         ELSE [s EXCEPT !.in_quotes = TRUE, !.quote_char = c, !.i = @ + 1]
    ELSE IF s.in_quotes
    THEN [s EXCEPT !.token = Append(@, c), !.i = @ + 1]
    ELSE IF c = "|"
    THEN LET flushed == FlushToken(s.cur, s.token)
             piped == [flushed EXCEPT !.redirections = Append(@, Pipe)]
         IN [s EXCEPT !.commands = Append(@, piped), !.cur = NoCommand,
                      !.token = <<>>, !.i = @ + 1]
    ELSE IF c = "<" \/ c = ">"
    THEN LET flushed == FlushToken(s.cur, s.token)
             br == RedirectionBranch(chars, s.i)
             from == SkipWhitespace(chars, s.i + br.skip)
             to == FilenameEnd(chars, from)
             filename == SubSeq(chars, from + 1, to)
         IN [s EXCEPT !.cur = [flushed EXCEPT !.redirections =
                                   Append(@, Redir(br.kind, filename))],
                      !.token = <<>>, !.i = to]
    ELSE IF IsBackgroundMarker(chars, s.i)
    THEN [s EXCEPT !.background = TRUE, !.stop = TRUE]
    ELSE IF is_whitespace(c)
    THEN [s EXCEPT !.cur = FlushToken(s.cur, s.token), !.token = <<>>,
                   !.i = @ + 1]
    ELSE [s EXCEPT !.token = Append(@, c), !.i = @ + 1]

RECURSIVE ParseLoop(_, _)
ParseLoop(chars, s) ==
    IF s.i < Len(chars) /\ ~s.stop
    THEN ParseLoop(chars, ParseStep(chars, s))
    ELSE s

\* the command under construction is dropped at the end of the input
PushLast_Dropped(commands, cmd) == commands

\* "Add the last command": only a command with a program is pushed
PushLast(commands, cmd) ==
    IF cmd.program # <<>> THEN Append(commands, cmd) ELSE commands

\* CommandParser::parse(input) -> Ok(Pipeline)
Parse(chars) ==
    LET s == ParseLoop(chars, ParserInit)
        last == FlushToken(s.cur, s.token)
    IN [commands |-> PushLast(s.commands, last), background |-> s.background]

-----------------------------------------------------------------------------
(* The parser on its own: every input of at most MaxLen characters *)

Inputs == UNION {[1..n -> Chars] : n \in 0..MaxLen}

NotParsed == [done |-> FALSE, ok |-> FALSE, commands |-> <<>>, background |-> FALSE]

\* whether parse returns Ok: `Ok(Pipeline { commands, background })` is its
\* only return, and its body has no `?`
parse_is_ok(chars) == TRUE

\* let result = CommandParser::parse(input)
DoParse ==
    /\ ~parsed.done
    /\ parsed' = [done |-> TRUE, ok |-> parse_is_ok(input),
                  commands |-> Parse(input).commands,
                  background |-> Parse(input).background]
    /\ UNCHANGED << input, resolverVars, shellVars, jobVars, sigVars >>

-----------------------------------------------------------------------------
(* Processes and pipes, as Executor sees them through std::process *)

\* std::process::ExitStatus: an exit code, or killed by a signal (no code)
Exited(c) == [signaled |-> FALSE, code |-> c]

Signaled == [signaled |-> TRUE, code |-> -1]

Statuses == {Exited(c) : c \in 0..MaxExit} \cup {Signaled}

\* ExitStatus::success()
success(st) == ~st.signaled /\ st.code = 0

\* ExitStatus::code().unwrap_or(d)
code_unwrap_or(st, d) == IF st.signaled THEN d ELSE st.code

Inherit == [kind |-> "inherit", id |-> 0]

File == [kind |-> "file", id |-> 0]

PipeEnd(q) == [kind |-> "pipe", id |-> q]

None == [kind |-> "none", id |-> 0]

\* what a program does once it runs: `y` is yes(1), `h` is head -n 1, every
\* other program may end at any time with any status
Behaviour(program) ==
    IF program = <<"y">> THEN "yes"
    ELSE IF program = <<"h">> THEN "head"
    ELSE "any"

FreshPid == CHOOSE p \in 1..(Cardinality(DOMAIN procs) + 1) : p \notin DOMAIN procs

\* no file was given to the stream
NoFile == <<>>

\* how apply_redirections opens the target: File::open, File::create, or
\* OpenOptions with append and create
open_mode(redir) ==
    IF redir.kind = "Input" THEN "read"
    ELSE IF redir.kind \in {"Output", "ErrorOutput"} THEN "truncate"
    ELSE "append"

\* the stream of the Command the redirection sets
stream_of(redir) ==
    IF redir.kind = "Input" THEN "stdin"
    ELSE IF redir.kind \in {"Output", "Append"} THEN "stdout"
    ELSE "stderr"

\* the first redirection of a stream keeps it
set_stream_FirstWins(files, redir) ==
    IF files[stream_of(redir)] = NoFile
    THEN [files EXCEPT ![stream_of(redir)] = redir.target] ELSE files

\* `command.stdin(..)`, `command.stdout(..)`, `command.stderr(..)`: the
\* stream is replaced by the file just opened
set_stream(files, redir) == [files EXCEPT ![stream_of(redir)] = redir.target]

\* Executor::apply_redirections: the file each stream of the Command ends
\* up with
RECURSIVE FilesFrom(_, _, _)
FilesFrom(redirs, r, files) ==
    IF r > Len(redirs) THEN files
    ELSE IF redirs[r].kind = "Pipe" THEN FilesFrom(redirs, r + 1, files)
    ELSE FilesFrom(redirs, r + 1, set_stream(files, redirs[r]))

redirected_files(cmd) ==
    FilesFrom(cmd.redirections, 1, [stdin |-> NoFile, stdout |-> NoFile, stderr |-> NoFile])

\* Executor::apply_redirections: the files it opens for a stage, in the
\* order of the loop, each with the number of children spawned so far
RECURSIVE OpensFrom(_, _, _, _)
OpensFrom(redirs, r, stage, spawned) ==
    IF r > Len(redirs) THEN <<>>
    ELSE IF redirs[r].kind = "Pipe" THEN OpensFrom(redirs, r + 1, stage, spawned)
    ELSE << [stage |-> stage, spawned |-> spawned, path |-> redirs[r].target,
             mode |-> open_mode(redirs[r])] >> \o
         OpensFrom(redirs, r + 1, stage, spawned)

\* the redirections of every stage are applied before the first spawn
stages_applied_AllFirst(cmds, i) == IF i = 1 THEN 1..Len(cmds) ELSE {}

\* `Self::apply_redirections(&mut command, cmd)?` in the iteration of stage
\* i: the stages whose redirections are applied there
stages_applied(cmds, i) == {i}

\* the files opened in the iteration of stage i when no open fails
RECURSIVE AppliedOpens(_, _, _, _)
AppliedOpens(cmds, stages, k, spawned) ==
    IF k > Len(cmds) THEN <<>>
    ELSE (IF k \in stages THEN OpensFrom(cmds[k].redirections, 1, k, spawned) ELSE <<>>)
         \o AppliedOpens(cmds, stages, k + 1, spawned)

\* the files opened in the iteration of stage i: all of them, or those
\* before the one whose open fails
OpenedIn(cmds, i, spawned, opened) ==
    LET all == AppliedOpens(cmds, stages_applied(cmds, i), 1, spawned) IN
    IF opened THEN {all} ELSE {SubSeq(all, 1, n) : n \in 0..(Len(all) - 1)}

NewProc(cmd, stdin, stdout) ==
    [state |-> "running", status |-> Exited(0), kind |-> Behaviour(cmd.program),
     stdin |-> stdin, stdout |-> stdout, files |-> redirected_files(cmd)]

\* the pipe made by Stdio::piped() at spawn: the child holds the write end,
\* the parent the read end (child.stdout)
NewPipe(writer) == [buf |-> 0, parent_read |-> TRUE, reader |-> 0, writer |-> writer]

\* every spawn succeeds
SpawnOutcomes_AlwaysSpawns(cmd) == {TRUE}

\* path_utils::find_executable returns Some for a name without `/`, as
\* every name of the parser's alphabet is; Command::spawn fails for a
\* missing program or a failing fork/exec, and always for an empty program
\* name (it resolves to the directory /bin/)
SpawnOutcomes(cmd) == IF cmd.program = <<>> THEN {FALSE} ELSE BOOLEAN

HasPipe(cmd) == \E r \in 1..Len(cmd.redirections) : cmd.redirections[r] = Pipe

HasFileRedirection(cmd) ==
    \E r \in 1..Len(cmd.redirections) : cmd.redirections[r].kind # "Pipe"

\* Executor::apply_redirections: the streams the Command ends up with
RECURSIVE ApplyFrom(_, _, _, _)
ApplyFrom(redirs, r, stdin, stdout) ==
    IF r > Len(redirs) THEN [stdin |-> stdin, stdout |-> stdout]
    ELSE IF redirs[r].kind = "Input" THEN ApplyFrom(redirs, r + 1, File, stdout)
    ELSE IF redirs[r].kind \in {"Output", "Append"}
    THEN ApplyFrom(redirs, r + 1, stdin, File)
    ELSE ApplyFrom(redirs, r + 1, stdin, stdout)

apply_redirections(cmd, stdin, stdout) == ApplyFrom(cmd.redirections, 1, stdin, stdout)

\* opening a redirection target can fail, when there is one
OpenOutcomes(cmd) == IF HasFileRedirection(cmd) THEN BOOLEAN ELSE {TRUE}

\* processes whose status has not been collected
Unreaped(ps) == [p \in {q \in DOMAIN ps : ps[q].state # "reaped"} |-> ps[p]]

-----------------------------------------------------------------------------
(* JobControl (src/shell/job_control.rs) *)

\* enum JobStatus
Running == [kind |-> "Running", code |-> 0]

Stopped == [kind |-> "Stopped", code |-> 0]

Completed(c) == [kind |-> "Completed", code |-> c]

Failed(c) == [kind |-> "Failed", code |-> c]

\* Option<u32>::None of foreground_job (job ids start at 1)
NoJob == 0

\* the Job that JobControl::execute builds for a spawned child
Job(pid) == [pid |-> pid, status |-> Running]

\* Mutex<()> of job_mutex with no holder; a held one has the job id of the
\* monitor thread that holds it
Unlocked == 0

\* JobControl::new
JobControlNew ==
    /\ foreground_job = NoJob
    /\ monitors = {}
    /\ reported = {}
    /\ issued = <<>>
    /\ job_pc = "idle"
    /\ signalled = {}
    /\ job_mutex = Unlocked

\* JobControl::cleanup_completed_jobs: retain Running and Stopped jobs
cleanup_completed_jobs(js) ==
    [j \in {k \in DOMAIN js : js[k].status.kind \in {"Running", "Stopped"}} |-> js[j]]

\* the id is the number of jobs in the table plus one
next_job_id_ByCount(js, last) == Cardinality(DOMAIN js) + 1

\* `self.last_job_id += 1; let job_id = self.last_job_id`
next_job_id(js, last) == last + 1

\* the command line of a job: one program, no arguments
JobCommand == [program |-> <<"a">>, args |-> <<>>, redirections |-> <<>>]

\* pids the OS can give to a new child: those of no process that is running,
\* stopped or waiting to be reaped
FreePids(ps) == Pids \ DOMAIN Unreaped(ps)

\* JobControl::execute on a command without `|` that is no builtin: spawn,
\* register the job, then start the monitor thread (background) or enter
\* wait_for_foreground_job (foreground); a failed spawn returns the error
JobExecute(background) ==
    /\ job_pc = "idle"
    /\ last_job_id < MaxJobs
    /\ \E spawned \in SpawnOutcomes(JobCommand) :
         IF ~spawned
         THEN UNCHANGED << procs, jobs, last_job_id, jobVars >>
         ELSE \E pid \in FreePids(procs) :
                LET job_id == next_job_id(jobs, last_job_id) IN
                /\ procs' = (pid :> NewProc(JobCommand, Inherit, Inherit)) @@ Unreaped(procs)
                /\ last_job_id' = job_id
                /\ jobs' = (job_id :> Job(pid)) @@ jobs
                /\ issued' = Append(issued, job_id)
                /\ IF background
                   THEN /\ monitors' = monitors \cup {[job_id |-> job_id, pid |-> pid]}
                        /\ UNCHANGED << foreground_job, job_pc >>
                   ELSE /\ foreground_job' = job_id
                        /\ job_pc' = "wait_for_foreground_job"
                        /\ UNCHANGED monitors
                /\ UNCHANGED << reported, signalled, job_mutex >>
    /\ UNCHANGED << parserVars, resolverVars, sigVars, pc, line, pipeline, opens, idx, children,
                    prev_stdout, exit_code, pipes, last_result, run_result,
                    lines_read >>

\* the status wait_for_foreground_job records for an ExitStatus
foreground_status(st) ==
    IF st.signaled THEN Failed(-1)
    ELSE IF success(st) THEN Completed(st.code) ELSE Failed(st.code)

\* JobControl::wait_for_foreground_job: child.wait() returns once the child
\* has terminated; the job taken out of foreground_job gets its status
WaitForForegroundJob ==
    /\ job_pc = "wait_for_foreground_job"
    /\ LET job_id == foreground_job
           pid == jobs[job_id].pid
       IN /\ procs[pid].state = "zombie"
          /\ procs' = [procs EXCEPT ![pid].state = "reaped"]
          /\ foreground_job' = NoJob
          /\ jobs' = [jobs EXCEPT ![job_id].status = foreground_status(procs[pid].status)]
    /\ job_pc' = "idle"
    /\ UNCHANGED << parserVars, resolverVars, sigVars, pc, line, pipeline, opens, idx, children,
                    prev_stdout, exit_code, pipes, last_result, run_result,
                    lines_read, last_job_id, monitors, reported, issued, signalled,
                    job_mutex >>

\* the thread of monitor_background_job: child.wait() on the pid of its
\* child returns once a child with that pid has terminated, or fails when
\* no child has that pid any more; `[id] Done`/`[id] Exit` is printed for a
\* status with a code; the job table is not touched.  The step is the
\* return of the wait together with `job_mutex.lock()`, which comes right
\* after it, and the println under the lock
MonitorWait(m) ==
    /\ m \in monitors
    /\ job_mutex = Unlocked
    /\ job_mutex' = m.job_id
    /\ monitors' = monitors \ {m}
    /\ IF m.pid \in DOMAIN Unreaped(procs)
       THEN /\ procs[m.pid].state = "zombie"
            /\ procs' = [procs EXCEPT ![m.pid].state = "reaped"]
            /\ reported' = IF procs[m.pid].status.signaled
                           THEN reported ELSE reported \cup {m.job_id}
       ELSE UNCHANGED << procs, reported >>
    /\ UNCHANGED << parserVars, resolverVars, sigVars, pc, line, pipeline, opens, idx, children,
                    prev_stdout, exit_code, pipes, last_result, run_result,
                    lines_read, jobs, last_job_id, foreground_job, issued,
                    job_pc, signalled >>

\* the closure of the monitor thread ends: _lock is dropped
MonitorUnlock ==
    /\ job_mutex # Unlocked
    /\ job_mutex' = Unlocked
    /\ UNCHANGED << parserVars, resolverVars, sigVars, shellVars, foreground_job,
                    monitors, reported, issued, job_pc, signalled >>

\* a pid of no job is taken for the pid of any job
jobs_by_pid_Any(js, p) ==
    IF {j \in DOMAIN js : js[j].pid = p} = {} THEN DOMAIN js
    ELSE {j \in DOMAIN js : js[j].pid = p}

\* JobControl::find_job_by_pid: the jobs whose pid is p; the HashMap
\* iteration finds any one of them
jobs_by_pid(js, p) == {j \in DOMAIN js : js[j].pid = p}

\* JobControl::handle_sigchld: every waitpid(-1, null, WNOHANG) collects one
\* terminated child, until none is left; the job found for its pid becomes
\* Completed(0)
HandleSigchld ==
    /\ job_pc = "idle"
    /\ LET zombies == {p \in DOMAIN procs : procs[p].state = "zombie"}
           tracked == {p \in zombies : jobs_by_pid(jobs, p) # {}}
       IN /\ procs' = [p \in DOMAIN procs |->
                         IF p \in zombies THEN [procs[p] EXCEPT !.state = "reaped"]
                         ELSE procs[p]]
          /\ \E found \in [tracked -> DOMAIN jobs] :
                /\ \A p \in tracked : found[p] \in jobs_by_pid(jobs, p)
                /\ jobs' = [j \in DOMAIN jobs |->
                              IF \E p \in tracked : found[p] = j
                              THEN [jobs[j] EXCEPT !.status = Completed(0)]
                              ELSE jobs[j]]
    /\ UNCHANGED << parserVars, resolverVars, sigVars, jobVars, pc, line, pipeline, opens, idx,
                    children, prev_stdout, exit_code, pipes, last_result,
                    run_result, lines_read, last_job_id >>

\* JobControl::list_jobs prints every job with its status: the finished
\* ones are printed as Done or Failed
ListJobs ==
    /\ job_pc = "idle"
    /\ reported' = reported \cup
                     {j \in DOMAIN jobs : jobs[j].status.kind \in {"Completed", "Failed"}}
    /\ UNCHANGED << parserVars, resolverVars, sigVars, shellVars, foreground_job, monitors,
                    issued, job_pc, signalled, job_mutex >>

\* `if args.len() > 1 { args[1].parse()? } else { self.last_job_id }`,
\* with arg = 0 for no argument
job_id_of(arg, last) == IF arg = 0 THEN last ELSE arg

\* signal::kill fails with ESRCH when no process has the pid; a process
\* that waits to be reaped still has it
kill_ok(ps, pid) == pid \in DOMAIN Unreaped(ps)

\* a job in the table is signalled whether or not the kill succeeds
signal_outcome_Unchecked(js, ps, job_id) ==
    IF job_id \notin DOMAIN js THEN "NoSuchJob" ELSE "Signalled"

\* what bring_to_foreground and continue_in_background do for a job id:
\* `if let Some(job) = self.jobs.get(&job_id)`, then `signal::kill(..)?`
signal_outcome(js, ps, job_id) ==
    IF job_id \notin DOMAIN js THEN "NoSuchJob"
    ELSE IF ~kill_ok(ps, js[job_id].pid) THEN "KillFailed"
    ELSE "Signalled"

\* the Result of the call: `No such job` is printed and Ok(()) returned, the
\* error of kill is returned by `?`
call_result(outcome) == IF outcome = "KillFailed" THEN "Err" ELSE "Ok"

\* signal::kill(pid, SIGCONT) on an existing process: a stopped one runs
sigcont(ps, pid) ==
    [ps EXCEPT ![pid].state = IF @ = "stopped" THEN "running" ELSE @]

\* JobControl::bring_to_foreground up to the waitpid of wait_for_job: an
\* unknown job id is printed; kill fails when no process has the pid and
\* the error is returned; otherwise the job is marked as the foreground job
BringToForeground(arg) ==
    /\ job_pc = "idle"
    /\ LET job_id == job_id_of(arg, last_job_id) IN
         IF signal_outcome(jobs, procs, job_id) = "Signalled"
         THEN /\ procs' = sigcont(procs, jobs[job_id].pid)
              /\ foreground_job' = job_id
              /\ job_pc' = "wait_for_job"
         ELSE UNCHANGED << procs, foreground_job, job_pc >>
    /\ UNCHANGED << parserVars, resolverVars, sigVars, pc, line, pipeline, opens, idx, children,
                    prev_stdout, exit_code, pipes, last_result, run_result,
                    lines_read, jobs, last_job_id, monitors, reported, issued, signalled,
                    job_mutex >>

\* when `libc::waitpid(pid, &mut status, 0)` returns: at once (with -1) when
\* no child has the pid, and once the child has terminated; with options 0
\* a stopped child is not reported
wait_for_job_returns(ps, pid) ==
    pid \notin DOMAIN Unreaped(ps) \/ ps[pid].state = "zombie"

\* JobControl::wait_for_job: the waitpid returns; its result and the status
\* are dropped, and neither the job nor foreground_job is updated
WaitForJob ==
    /\ job_pc = "wait_for_job"
    /\ LET pid == jobs[foreground_job].pid IN
         /\ wait_for_job_returns(procs, pid)
         /\ procs' = IF pid \in DOMAIN Unreaped(procs) /\ procs[pid].state = "zombie"
                     THEN [procs EXCEPT ![pid].state = "reaped"]
                     ELSE procs
    /\ job_pc' = "idle"
    /\ UNCHANGED << parserVars, resolverVars, sigVars, pc, line, pipeline, opens, idx, children,
                    prev_stdout, exit_code, pipes, last_result, run_result,
                    lines_read, jobs, last_job_id, foreground_job, monitors,
                    reported, issued, signalled, job_mutex >>

\* continue_in_background waits until the process has terminated
continue_returns_Waited(ps, pid) == wait_for_job_returns(ps, pid)

\* continue_in_background calls no wait after the kill: it returns whatever
\* the process does
continue_returns(ps, pid) == TRUE

\* JobControl::continue_in_background: SIGCONT and a message, nothing else
ContinueInBackground(arg) ==
    /\ job_pc = "idle"
    /\ LET job_id == job_id_of(arg, last_job_id) IN
         /\ job_id \in DOMAIN jobs => continue_returns(procs, jobs[job_id].pid)
         /\ procs' = IF signal_outcome(jobs, procs, job_id) = "Signalled"
                     THEN sigcont(procs, jobs[job_id].pid)
                     ELSE procs
    /\ UNCHANGED << parserVars, resolverVars, sigVars, jobVars, pc, line, pipeline, opens, idx,
                    children, prev_stdout, exit_code, pipes, last_result,
                    run_result, lines_read, jobs, last_job_id >>

\* JobControl::cleanup_completed_jobs called between two commands
CleanupCompletedJobs ==
    /\ job_pc = "idle"
    /\ jobs' = cleanup_completed_jobs(jobs)
    /\ UNCHANGED << parserVars, resolverVars, sigVars, jobVars, pc, line, pipeline, opens, idx,
                    children, prev_stdout, exit_code, procs, pipes, last_result,
                    run_result, lines_read, last_job_id >>

\* the orders in which `for (_, job) in &self.jobs` can visit the HashMap
IterationOrders(js) ==
    {o \in [1..Cardinality(DOMAIN js) -> DOMAIN js] :
        \A a, b \in DOMAIN o : a # b => o[a] # o[b]}

\* the result of kill is propagated and ends the loop
continues_after_Propagated(delivered) == delivered

\* `let _ = signal::kill(...)`: the result of kill is dropped
continues_after(delivered) == TRUE

\* the loop of drop over the jobs in the given order: SIGTERM to the pid of
\* every job that matches Running | Stopped
RECURSIVE drop_signals(_, _, _)
drop_signals(js, ps, order) ==
    IF order = <<>> THEN {}
    ELSE LET job == js[Head(order)]
             delivered == kill_ok(ps, job.pid)
         IN IF job.status.kind \in {"Running", "Stopped"}
            THEN {[job_id |-> Head(order), delivered |-> delivered]} \cup
                 (IF continues_after(delivered)
                  THEN drop_signals(js, ps, Tail(order)) ELSE {})
            ELSE drop_signals(js, ps, Tail(order))

\* <JobControl as Drop>::drop when the shell goes away; a process that got
\* SIGTERM terminates at a later step unless it ignores the signal
Drop ==
    /\ job_pc = "idle"
    /\ \E order \in IterationOrders(jobs) :
          signalled' = drop_signals(jobs, procs, order)
    /\ job_pc' = "dropped"
    /\ UNCHANGED << parserVars, resolverVars, sigVars, shellVars, foreground_job, monitors,
                    reported, issued, job_mutex >>

\* the children of the shell that are the process of no job
NoJobChildren ==
    {p \in DOMAIN Unreaped(procs) : \A j \in DOMAIN jobs : jobs[j].pid # p}

\* Executor::execute_simple_command for a background command, seen from
\* JobControl: the shell has one more child, which is no job and which
\* nobody waits for
ExecutorBackground ==
    /\ job_pc = "idle"
    /\ Cardinality(NoJobChildren) < MaxNoJob
    /\ \E pid \in FreePids(procs) :
          procs' = (pid :> NewProc(JobCommand, Inherit, Inherit)) @@ Unreaped(procs)
    /\ UNCHANGED << parserVars, resolverVars, sigVars, jobVars, pc, line, pipeline, opens, idx,
                    children, prev_stdout, exit_code, pipes, last_result,
                    run_result, lines_read, jobs, last_job_id >>

\* SIGTSTP or SIGSTOP stops a running child
ProcStop(pid) ==
    /\ procs[pid].state = "running"
    /\ procs' = [procs EXCEPT ![pid].state = "stopped"]
    /\ UNCHANGED << parserVars, resolverVars, sigVars, jobVars, pc, line, pipeline, opens, idx,
                    children, prev_stdout, exit_code, pipes, last_result,
                    run_result, lines_read, jobs, last_job_id >>

-----------------------------------------------------------------------------
(* Shell::run, Shell::execute_command and Executor::execute *)

\* the command lines typed at the prompt
Lines ==
    { <<"a">>, <<"a", "&">>, <<"a", "|", "a">>, <<"a", "|", "a", "&">>,
      <<"y", "|", "h">>, <<"a", "<", "a">>, <<"a", "|", "a", ">", "a">>,
      <<"a", ">", "a", "|", "a">>, <<"a", ">", "a", ">", "2">>,
      <<"|", "a">>, <<"a", "|">>, <<"&">> }

\* Shell::is_destructive_command on a line of Lines: a `>` without `>>`
\* (no line of Lines starts with one of the destructive program names)
is_destructive_command(l) ==
    /\ \E i \in 1..Len(l) : l[i] = ">"
    /\ ~\E i \in 1..(Len(l) - 1) : l[i] = ">" /\ l[i + 1] = ">"

NoPipeline == [commands |-> <<>>, background |-> FALSE]

ShellInit ==
    /\ pc = "read"
    /\ line = <<>>
    /\ pipeline = NoPipeline
    /\ opens = <<>>
    /\ idx = 0
    /\ children = <<>>
    /\ prev_stdout = None
    /\ exit_code = 0
    /\ procs = <<>>
    /\ pipes = <<>>
    /\ last_result = [kind |-> "None", code |-> 0]
    /\ run_result = "running"
    /\ lines_read = 0
    /\ jobs = <<>>
    /\ last_job_id = 0

\* execute returned Ok(code): execute_command returns Ok(()), and the loop
\* of Shell::run finishes its iteration with cleanup_completed_jobs
ReturnOk(code) ==
    /\ last_result' = [kind |-> "Ok", code |-> code]
    /\ pc' = "read"
    /\ jobs' = cleanup_completed_jobs(jobs)
    /\ UNCHANGED run_result

\* execute returned Err: `?` in execute_command, in process_input and in
\* Shell::run hands the error to main, which returns it
ReturnErr ==
    /\ last_result' = [kind |-> "Err", code |-> 0]
    /\ pc' = "exited"
    /\ run_result' = "Err"
    /\ UNCHANGED jobs

\* the line `exit`, which read_line also returns at end of input
ExitLine == << "e", "x", "i", "t" >>

\* `let (input, show_suggestions) = self.terminal.read_line()?`: the user
\* types a line of Lines or `exit`
ReadLine(l) ==
    /\ pc = "read"
    /\ l = ExitLine \/ lines_read < MaxLines
    /\ lines_read' = IF l = ExitLine THEN lines_read ELSE lines_read + 1
    /\ line' = l
    /\ pc' = "was_interrupted"
    /\ UNCHANGED << parserVars, resolverVars, jobVars, sigVars, pipeline, opens, idx, children,
                    prev_stdout, exit_code, procs, pipes, last_result,
                    run_result, jobs, last_job_id >>

\* the check is skipped: the line is looked at whatever the flag says
AfterLoad_Unchecked(was) == "input"

\* where the thread goes after the load: `if was_interrupted { store(false) }`
\* and the `continue` of Shell::run when the flag was set, the rest of the
\* loop body when it was not
AfterLoad(was) == IF was THEN "store" ELSE "input"

\* SignalHandler::was_interrupted, first statement:
\* `let was_interrupted = INTERRUPT_RECEIVED.load(Ordering::SeqCst)`
WasInterruptedLoad ==
    /\ pc = "was_interrupted"
    /\ was_interrupted' = INTERRUPT_RECEIVED
    /\ pc' = AfterLoad(INTERRUPT_RECEIVED)
    /\ UNCHANGED << parserVars, resolverVars, jobVars, shellVars_but_pc,
                    INTERRUPT_RECEIVED, handler, stdout_lock >>

\* the flag is left as it is
store_Kept(flag) == flag

\* `INTERRUPT_RECEIVED.store(false, Ordering::SeqCst)`
store_false(flag) == FALSE

\* SignalHandler::was_interrupted, `if was_interrupted { store(false) }`,
\* and the `continue` of Shell::run that follows its return of true
WasInterruptedStore ==
    /\ pc = "store"
    /\ INTERRUPT_RECEIVED' = store_false(INTERRUPT_RECEIVED)
    /\ pc' = "read"
    /\ UNCHANGED << parserVars, resolverVars, jobVars, shellVars_but_pc,
                    was_interrupted, handler, stdout_lock >>

\* `if input == "exit" { break; }`: run returns Ok(())
ReadExit ==
    /\ pc = "input"
    /\ line = ExitLine
    /\ pc' = "exited"
    /\ run_result' = "Ok"
    /\ UNCHANGED << parserVars, resolverVars, jobVars, sigVars, line, pipeline, opens, idx, children,
                    prev_stdout, exit_code, procs, pipes, last_result,
                    lines_read, jobs, last_job_id >>

\* Shell::process_input on a line that is neither empty, `exit` nor a
\* builtin: a destructive command first prints
\* `println!("\nWarning: ...")`, which holds the standard-output lock
ProcessInput ==
    /\ pc = "input"
    /\ line # ExitLine
    /\ IF is_destructive_command(line)
       THEN /\ stdout_lock = "free"
            /\ stdout_lock' = "main"
            /\ pc' = "println"
       ELSE /\ pc' = "execute_command"
            /\ UNCHANGED stdout_lock
    /\ UNCHANGED << parserVars, resolverVars, jobVars, shellVars_but_pc,
                    INTERRUPT_RECEIVED, was_interrupted, handler >>

\* the println returns and releases the lock; process_input asks
\* `Proceed? [y/N]` and returns Ok(()) unless the answer is y
Confirm ==
    /\ pc = "println"
    /\ stdout_lock' = "free"
    /\ \E proceed \in BOOLEAN :
          /\ pc' = IF proceed THEN "execute_command" ELSE "read"
          /\ jobs' = IF proceed THEN jobs ELSE cleanup_completed_jobs(jobs)
    /\ UNCHANGED << parserVars, resolverVars, jobVars, INTERRUPT_RECEIVED, was_interrupted,
                    handler, line, pipeline, opens, idx, children, prev_stdout,
                    exit_code, procs, pipes, last_result, run_result,
                    lines_read, last_job_id >>

\* Shell::execute_command parses the line and calls Executor::execute,
\* which returns Ok(0) for no command, runs a single command without Pipe
\* as a simple command and everything else as a pipeline
ExecuteCommand ==
    /\ pc = "execute_command"
    /\ pipeline' = Parse(line)
    /\ opens' = <<>>
    /\ children' = <<>>
    /\ prev_stdout' = None
    /\ procs' = Unreaped(procs)
    /\ pipes' = <<>>
    /\ idx' = 0
    /\ exit_code' = 0
    /\ LET commands == Parse(line).commands IN
       IF commands = <<>>
       THEN ReturnOk(0)
       ELSE /\ pc' = IF Len(commands) = 1 /\ ~HasPipe(commands[1])
                     THEN "simple" ELSE "spawn"
            /\ UNCHANGED << last_result, run_result, jobs >>
    /\ UNCHANGED << parserVars, resolverVars, jobVars, sigVars, line, lines_read, last_job_id >>

\* Executor::execute_simple_command up to the point where it returns or
\* blocks in Command::status
SimpleCommand ==
    /\ pc = "simple"
    /\ LET cmd == pipeline.commands[1]
           streams == apply_redirections(cmd, Inherit, Inherit)
           pid == FreshPid
       IN \E opened \in OpenOutcomes(cmd), spawned \in SpawnOutcomes(cmd) :
            /\ \E files \in OpenedIn(pipeline.commands, 1, 0, opened) :
                  opens' = opens \o files
            /\ IF ~opened \/ ~spawned
               THEN /\ ReturnErr
                    /\ UNCHANGED << procs, children >>
               ELSE /\ procs' = procs @@ (pid :> NewProc(cmd, streams.stdin, streams.stdout))
                    /\ children' = << pid >>
                    /\ IF pipeline.background
                       THEN ReturnOk(0)
                       ELSE /\ pc' = "status"
                            /\ UNCHANGED << last_result, run_result, jobs >>
    /\ UNCHANGED << parserVars, resolverVars, jobVars, sigVars, line, pipeline, idx, prev_stdout, exit_code,
                    pipes, lines_read, last_job_id >>

\* `Ok(status.code().unwrap_or(0))` of the foreground simple command
simple_exit_code(status) == code_unwrap_or(status, 0)

\* Command::status returns once the child has terminated
SimpleWait ==
    /\ pc = "status"
    /\ LET pid == children[1] IN
         /\ procs[pid].state = "zombie"
         /\ procs' = [procs EXCEPT ![pid].state = "reaped"]
         /\ ReturnOk(simple_exit_code(procs[pid].status))
    /\ UNCHANGED << parserVars, resolverVars, jobVars, sigVars, line, pipeline, opens, idx, children, prev_stdout,
                    exit_code, pipes, lines_read, last_job_id >>

\* the parent keeps its copy of the read end open
CloseParentRead_Leaked(ps, q) == ps

\* the parent's copy of a pipe read end is closed: the Stdio that holds it
\* is dropped with the Command at the end of the loop iteration
CloseParentRead(ps, q) == [ps EXCEPT ![q].parent_read = FALSE]

\* the pipe end a spawned child gets as stdin is recorded as its reader
AttachReader(ps, stream, pid) ==
    IF stream.kind = "pipe" THEN [ps EXCEPT ![stream.id].reader = pid] ELSE ps

\* the children that have terminated are waited for before the error is
\* returned
children_on_error_Reaped(ps, kids) ==
    [p \in DOMAIN ps |->
       IF (\E k \in 1..Len(kids) : kids[k] = p) /\ ps[p].state = "zombie"
       THEN [ps[p] EXCEPT !.state = "reaped"] ELSE ps[p]]

\* `?` returns from execute with `children` still holding the stages
\* spawned so far: the Vec is dropped, and dropping a Child neither waits
\* for the process nor kills it
children_on_error(ps, kids) == ps

\* one iteration of `for (i, cmd) in pipeline.commands.iter().enumerate()`
SpawnStage ==
    /\ pc = "spawn"
    /\ LET cmd == pipeline.commands[idx + 1]
           is_last == idx = Len(pipeline.commands) - 1
           stdin == IF prev_stdout.kind = "pipe" THEN prev_stdout ELSE Inherit
           stdout == IF is_last THEN Inherit ELSE [kind |-> "piped", id |-> 0]
           streams == apply_redirections(cmd, stdin, stdout)
           pid == FreshPid
           q == Len(pipes) + 1
           piped == streams.stdout.kind = "piped"
           closed == IF prev_stdout.kind = "pipe"
                     THEN CloseParentRead(pipes, prev_stdout.id) ELSE pipes
       IN \E opened \in OpenOutcomes(cmd), spawned \in SpawnOutcomes(cmd) :
            /\ \E files \in OpenedIn(pipeline.commands, idx + 1, Len(children), opened) :
                  opens' = opens \o files
            /\ IF ~opened \/ ~spawned
               THEN /\ ReturnErr
                    /\ pipes' = closed
                    /\ prev_stdout' = None
                    /\ procs' = children_on_error(procs, children)
                    /\ UNCHANGED << children, idx, exit_code >>
               ELSE /\ procs' = procs @@
                          (pid :> NewProc(cmd, streams.stdin,
                                          IF piped THEN PipeEnd(q) ELSE streams.stdout))
                    /\ pipes' = IF piped
                                THEN Append(AttachReader(closed, streams.stdin, pid), NewPipe(pid))
                                ELSE AttachReader(closed, streams.stdin, pid)
                    /\ prev_stdout' = IF ~is_last /\ piped THEN PipeEnd(q) ELSE None
                    /\ children' = Append(children, pid)
                    /\ idx' = IF is_last THEN 0 ELSE idx + 1
                    /\ pc' = IF is_last THEN "wait" ELSE "spawn"
                    /\ exit_code' = 0
                    /\ UNCHANGED << last_result, run_result, jobs >>
    /\ UNCHANGED << parserVars, resolverVars, jobVars, sigVars, line, pipeline, lines_read, last_job_id >>

\* the first failing stage's code is kept
fold_exit_code_FirstWins(code, status) ==
    IF ~success(status) /\ code = 0 THEN code_unwrap_or(status, 1) ELSE code

\* `if !status.success() { exit_code = status.code().unwrap_or(1) }`
fold_exit_code(code, status) ==
    IF ~success(status) THEN code_unwrap_or(status, 1) ELSE code

\* one iteration of `for mut child in children`: child.wait() returns once
\* that child has terminated
WaitChild ==
    /\ pc = "wait"
    /\ LET pid == children[idx + 1]
           code == fold_exit_code(exit_code, procs[pid].status)
       IN /\ procs[pid].state = "zombie"
          /\ procs' = [procs EXCEPT ![pid].state = "reaped"]
          /\ exit_code' = code
          /\ IF idx + 1 = Len(children)
             THEN /\ ReturnOk(code)
                  /\ UNCHANGED idx
             ELSE /\ idx' = idx + 1
                  /\ UNCHANGED << pc, last_result, run_result, jobs >>
    /\ UNCHANGED << parserVars, resolverVars, jobVars, sigVars, line, pipeline, opens, children, prev_stdout, pipes,
                    lines_read, last_job_id >>

-----------------------------------------------------------------------------
(* The spawned processes *)

\* a terminated process has closed its descriptors
CloseReader(ps, pid) ==
    [q \in DOMAIN ps |-> IF ps[q].reader = pid THEN [ps[q] EXCEPT !.reader = 0] ELSE ps[q]]

Terminate(pid, status) ==
    /\ procs' = [procs EXCEPT ![pid].state = "zombie", ![pid].status = status]
    /\ pipes' = CloseReader(pipes, pid)

\* a process of unknown behaviour exits with some code or is killed
ProcExit(pid) ==
    /\ procs[pid].state = "running"
    /\ procs[pid].kind = "any"
    /\ \E status \in Statuses : Terminate(pid, status)
    /\ UNCHANGED << parserVars, resolverVars, jobVars, sigVars, pc, line, pipeline, opens, idx, children, prev_stdout,
                    exit_code, last_result, run_result, lines_read, jobs,
                    last_job_id >>

HasReaders(pipe) == pipe.parent_read \/ pipe.reader # 0

\* yes writes a line to its stdout pipe; it is killed by SIGPIPE when no
\* read end is open (Command::spawn resets SIGPIPE to its default action)
YesWrite(pid) ==
    /\ procs[pid].state = "running"
    /\ procs[pid].kind = "yes"
    /\ procs[pid].stdout.kind = "pipe"
    /\ LET q == procs[pid].stdout.id IN
         IF ~HasReaders(pipes[q])
         THEN Terminate(pid, Signaled)
         ELSE /\ pipes[q].buf < PipeCap
              /\ pipes' = [pipes EXCEPT ![q].buf = @ + 1]
              /\ UNCHANGED procs
    /\ UNCHANGED << parserVars, resolverVars, jobVars, sigVars, pc, line, pipeline, opens, idx, children, prev_stdout,
                    exit_code, last_result, run_result, lines_read, jobs,
                    last_job_id >>

\* head -n 1 exits with 0 once it has read a line or reached end of file
HeadRead(pid) ==
    /\ procs[pid].state = "running"
    /\ procs[pid].kind = "head"
    /\ IF procs[pid].stdin.kind = "pipe"
       THEN LET q == procs[pid].stdin.id
                w == pipes[q].writer
            IN \/ pipes[q].buf > 0
               \/ procs[w].state # "running"
               \/ procs[w].kind = "any"
       ELSE TRUE
    /\ Terminate(pid, Exited(0))
    /\ UNCHANGED << parserVars, resolverVars, jobVars, sigVars, pc, line, pipeline, opens, idx, children, prev_stdout,
                    exit_code, last_result, run_result, lines_read, jobs,
                    last_job_id >>

-----------------------------------------------------------------------------
(* The SIGINT handler (src/shell/signal_handler.rs) *)

SignalInit ==
    /\ INTERRUPT_RECEIVED = FALSE
    /\ was_interrupted = FALSE
    /\ handler = "idle"
    /\ stdout_lock = "free"

\* SIGINT is delivered while the shell runs (it is blocked while its own
\* handler runs): `INTERRUPT_RECEIVED.store(true, Ordering::SeqCst)`
HandleSigint ==
    /\ pc # "exited"
    /\ handler = "idle"
    /\ INTERRUPT_RECEIVED' = TRUE
    /\ handler' = "println"
    /\ UNCHANGED << parserVars, resolverVars, jobVars, shellVars, was_interrupted, stdout_lock >>

\* `println!()` of the handler takes the standard-output lock; a handler
\* that runs on another thread than the one that holds the lock waits for it
SigintPrintln ==
    /\ handler = "println"
    /\ stdout_lock = "free"
    /\ stdout_lock' = "sigint"
    /\ handler' = "write"
    /\ UNCHANGED << parserVars, resolverVars, jobVars, shellVars, INTERRUPT_RECEIVED,
                    was_interrupted >>

\* the handler interrupted the thread that is inside its own println: the
\* lock is reentrant, the RefCell behind it is already borrowed, and the
\* panic inside the extern "C" handler aborts the process
SigintPanic ==
    /\ handler = "println"
    /\ stdout_lock = "main"
    /\ pc' = "exited"
    /\ run_result' = "Abort"
    /\ handler' = "idle"
    /\ UNCHANGED << parserVars, resolverVars, jobVars, shellVars_but_pc_result,
                    INTERRUPT_RECEIVED, was_interrupted, stdout_lock >>

\* the newline is written, the lock released, and the handler returns
SigintReturn ==
    /\ handler = "write"
    /\ stdout_lock' = "free"
    /\ handler' = "idle"
    /\ UNCHANGED << parserVars, resolverVars, jobVars, shellVars, INTERRUPT_RECEIVED,
                    was_interrupted >>

-----------------------------------------------------------------------------
(* path_utils::find_executable *)

NameChars == {"a", "/"}

\* the program names handed to find_executable
CommandNames ==
    UNION {[1..n -> NameChars] : n \in 1..MaxNameLen}

common_paths == << "/bin", "/usr/bin", "/usr/local/bin", "/sbin", "/usr/sbin" >>

\* the directories PATH may name: one of the standard ones and another one
PathDirs == {"/usr/bin", "/opt"}

\* env::var("PATH") is Err
NoPathVar == [set |-> FALSE, dirs |-> <<>>]

\* the values of PATH, split at `:`
PathVars ==
    {NoPathVar} \cup
    {[set |-> TRUE, dirs |-> d] : d \in UNION {[1..n -> PathDirs] : n \in 1..MaxPathDirs}}

\* command.contains('/')
contains_separator(name) == \E i \in 1..Len(name) : name[i] = "/"

\* Path::new(dir).join(command), for a command without `/`
join(dir, name) == [dir |-> dir, file |-> name]

\* Path::new(command) and PathBuf::from(command): the name as it is
PathBuf_from(name) == [dir |-> "", file |-> name]

\* the paths find_executable can look at for a name
Candidates(name) ==
    {PathBuf_from(name)} \cup
    (IF contains_separator(name) THEN {}
     ELSE {join(common_paths[i], name) : i \in 1..Len(common_paths)} \cup
          {join(d, name) : d \in PathDirs})

\* Option<PathBuf>
NoPath == [some |-> FALSE, path |-> PathBuf_from(<<>>)]
Some(path) == [some |-> TRUE, path |-> path]

\* `path.exists() && is_executable(path)`
is_found(files, path) == path \in files

\* `for dir in dirs { ... return Some(path) }`: the first directory that has
\* the name as an executable file
RECURSIVE first_match(_, _, _)
first_match(files, dirs, name) ==
    IF dirs = <<>> THEN NoPath
    ELSE IF is_found(files, join(Head(dirs), name)) THEN Some(join(Head(dirs), name))
    ELSE first_match(files, Tail(dirs), name)

\* find_executable(command)
find_executable(name, files, pathvar) ==
    IF contains_separator(name)
    THEN IF is_found(files, PathBuf_from(name)) THEN Some(PathBuf_from(name)) ELSE NoPath
    ELSE LET common == first_match(files, common_paths, name)
             searched == IF pathvar.set THEN first_match(files, pathvar.dirs, name)
                         ELSE NoPath
         IN IF common.some THEN common
            ELSE IF searched.some THEN searched
            ELSE Some(PathBuf_from(name))

NotResolved == [done |-> FALSE, found |-> NoPath]

\* no name is being resolved
ResolverIdle ==
    /\ command = <<>>
    /\ executables = {}
    /\ path_var = NoPathVar
    /\ resolved = NotResolved

\* a name, a file system and a value of PATH
ResolverInputs ==
    /\ command \in CommandNames
    /\ executables \in SUBSET Candidates(command)
    /\ path_var \in PathVars
    /\ resolved = NotResolved

\* let executable = path_utils::find_executable(&cmd.program)
FindExecutable ==
    /\ command # <<>>
    /\ ~resolved.done
    /\ resolved' = [done |-> TRUE,
                    found |-> find_executable(command, executables, path_var)]
    /\ UNCHANGED << parserVars, command, executables, path_var, shellVars,
                    jobVars, sigVars >>

-----------------------------------------------------------------------------
(* Specifications *)

Init ==
    /\ input = <<>>
    /\ parsed = NotParsed
    /\ ResolverIdle
    /\ ShellInit
    /\ JobControlNew
    /\ SignalInit

MainThread ==
    \/ \E l \in Lines \cup {ExitLine} : ReadLine(l)
    \/ WasInterruptedLoad
    \/ WasInterruptedStore
    \/ ReadExit
    \/ ProcessInput
    \/ Confirm
    \/ ExecuteCommand
    \/ SimpleCommand
    \/ SimpleWait
    \/ SpawnStage
    \/ WaitChild

Next ==
    \/ MainThread
    \/ \E pid \in DOMAIN procs : ProcExit(pid)
    \/ \E pid \in DOMAIN procs : YesWrite(pid)
    \/ \E pid \in DOMAIN procs : HeadRead(pid)
    \/ HandleSigint
    \/ SigintPrintln
    \/ SigintPanic
    \/ SigintReturn

Spec == Init /\ [][Next]_vars

\* the thread inside Executor::execute runs whenever it can, and so do the
\* processes the OS has made runnable; a process of unknown behaviour need
\* not ever exit, and the user need not ever type a line
FairSpec ==
    /\ Spec
    /\ WF_vars(SimpleCommand \/ SimpleWait \/ SpawnStage \/ WaitChild)
    /\ WF_vars(\E pid \in DOMAIN procs : YesWrite(pid))
    /\ WF_vars(\E pid \in DOMAIN procs : HeadRead(pid))

ParserInputInit ==
    /\ input \in Inputs
    /\ parsed = NotParsed
    /\ ResolverIdle
    /\ ShellInit
    /\ JobControlNew
    /\ SignalInit

ParserNext == DoParse

ParserSpec == ParserInputInit /\ [][ParserNext]_vars

\* the operations of JobControl called in any order by the thread that owns
\* it, next to the monitor threads and the children
JobControlThread ==
    \/ \E background \in BOOLEAN : JobExecute(background)
    \/ WaitForForegroundJob
    \/ HandleSigchld
    \/ ListJobs
    \/ \E arg \in 0..MaxJobs : BringToForeground(arg)
    \/ WaitForJob
    \/ \E arg \in 0..MaxJobs : ContinueInBackground(arg)
    \/ CleanupCompletedJobs

JobNext ==
    \/ JobControlThread
    \/ Drop
    \/ \E m \in monitors : MonitorWait(m)
    \/ MonitorUnlock
    \/ \E pid \in DOMAIN procs : ProcExit(pid)
    \/ \E pid \in DOMAIN procs : ProcStop(pid)

JobSpec == Init /\ [][JobNext]_vars

\* the spawning and the collecting of children: the jobs of JobControl next
\* to the background children of the Executor of the same shell, which are
\* no jobs
ReapNext ==
    \/ \E background \in BOOLEAN : JobExecute(background)
    \/ ExecutorBackground
    \/ WaitForForegroundJob
    \/ HandleSigchld
    \/ CleanupCompletedJobs
    \/ \E m \in monitors : MonitorWait(m)
    \/ MonitorUnlock
    \/ \E pid \in DOMAIN procs : ProcExit(pid)

ReapSpec == Init /\ [][ReapNext]_vars

\* the monitor threads run, a caller blocked in a wait goes on once the wait
\* returns, and the main loop calls handle_sigchld again and again; a child
\* need not ever exit
JobFairSpec ==
    /\ JobSpec
    /\ WF_vars(\E m \in monitors : MonitorWait(m))
    /\ WF_vars(MonitorUnlock)
    /\ WF_vars(WaitForForegroundJob \/ WaitForJob)
    /\ WF_vars(HandleSigchld)

ResolverInit ==
    /\ input = <<>>
    /\ parsed = NotParsed
    /\ ResolverInputs
    /\ ShellInit
    /\ JobControlNew
    /\ SignalInit

ResolverNext == FindExecutable

ResolverSpec == ResolverInit /\ [][ResolverNext]_vars

-----------------------------------------------------------------------------
(* Properties of CommandParser::parse, checked under ParserSpec *)

Stages == parsed.commands

NumStages == Len(parsed.commands)

OnlyFrom(s, cs) == \A j \in 1..Len(s) : s[j] \in cs

\* the input is `a... [a...]* 2>[ ]*a...`: a command and arguments made of
\* letters, a blank, the operator `2>` and a target
ErrRedirectAt(k, m) ==
    /\ k \in 3..Len(input) /\ m \in (k + 2)..Len(input)
    /\ input[1] = "a" /\ input[k - 1] = " "
    /\ OnlyFrom(SubSeq(input, 1, k - 1), {"a", " "})
    /\ input[k] = "2" /\ input[k + 1] = ">"
    /\ OnlyFrom(SubSeq(input, k + 2, m - 1), {" "})
    /\ OnlyFrom(SubSeq(input, m, Len(input)), {"a"})

PipeCount(cmd) ==
    Cardinality({r \in 1..Len(cmd.redirections) : cmd.redirections[r] = Pipe})

\* C1: when a whitespace-separated `2>` follows a command and its
\* arguments, parse yields one stage whose redirections are
\* ErrorOutput(target) and whose program and args hold only the real words:
\* the `2` of the operator is neither the program nor an argument.
C1_ErrorRedirectLeavesNoTwo ==
    parsed.done =>
      \A k, m \in 1..Len(input) :
        ErrRedirectAt(k, m) =>
          /\ NumStages = 1
          /\ Stages[1].redirections =
                << Redir("ErrorOutput", SubSeq(input, m, Len(input))) >>
          /\ OnlyFrom(Stages[1].program, {"a"})
          /\ \A j \in 1..Len(Stages[1].args) : OnlyFrom(Stages[1].args[j], {"a"})

\* C2: in the parsed Pipeline every stage except the last carries exactly
\* one Pipe redirection and the last stage carries none.
C2_PipeOnAllButLast ==
    parsed.done =>
      \A i \in 1..NumStages :
        PipeCount(Stages[i]) = IF i < NumStages THEN 1 ELSE 0

\* C3: no stage of the parsed Pipeline has an empty program.
C3_NoEmptyProgram ==
    parsed.done => \A i \in 1..NumStages : Stages[i].program # <<>>

\* the quote character open after the first n characters of s ("" if none)
RECURSIVE QuoteAfter(_, _)
QuoteAfter(s, n) ==
    IF n = 0 THEN ""
    ELSE LET q == QuoteAfter(s, n - 1) IN
         IF q = "" THEN (IF s[n] \in {"\"", "'"} THEN s[n] ELSE "")
         ELSE IF s[n] = q THEN "" ELSE q

Amps(s) == Cardinality({j \in 1..Len(s) : s[j] = "&"})

RECURSIVE SumOver(_, _)
SumOver(f, n) == IF n = 0 THEN 0 ELSE f[n] + SumOver(f, n - 1)

AmpsInStage(cmd) ==
    Amps(cmd.program)
    + SumOver([j \in 1..Len(cmd.args) |-> Amps(cmd.args[j])], Len(cmd.args))
    + SumOver([j \in 1..Len(cmd.redirections) |-> Amps(cmd.redirections[j].target)],
              Len(cmd.redirections))

AmpsInPipeline ==
    SumOver([i \in 1..NumStages |-> AmpsInStage(Stages[i])], NumStages)

EndsWithUnquotedAmp ==
    /\ Len(input) > 0
    /\ input[Len(input)] = "&"
    /\ QuoteAfter(input, Len(input) - 1) = ""

\* C4: when the final character of the input is an unquoted `&`, parse
\* returns background = true and that `&` is in no program, argument or
\* redirection target; an `&` that is not the final character never sets
\* background.
C4_TrailingAmpIsBackground ==
    parsed.done =>
      /\ EndsWithUnquotedAmp =>
            /\ parsed.background
            /\ AmpsInPipeline = Amps(input) - 1
      /\ parsed.background => Len(input) > 0 /\ input[Len(input)] = "&"

-----------------------------------------------------------------------------
(* Properties of Shell::run and Executor::execute, checked under Spec *)

IsSimple(pl) == Len(pl.commands) = 1 /\ ~HasPipe(pl.commands[1])

\* Executor::execute has returned Ok and nothing has run since
ReturnedOk == pc = "read" /\ last_result.kind = "Ok" /\ children # <<>>

StatusOf(i) == procs[children[i]].status

\* C5: a parse error or a per-stage spawn error (program not found, spawn
\* failure, redirection target unopenable) never terminates the shell: the
\* read loop of Shell::run goes on to the next line.
C5_ErrorsDoNotEndShell ==
    last_result.kind = "Err" => pc # "exited" /\ run_result = "running"

Failing == {i \in 1..Len(children) : ~success(StatusOf(i))}

LastFailing == CHOOSE i \in Failing : \A j \in Failing : j <= i

\* C6: for a multi-stage pipeline execute returns only after every spawned
\* stage has been waited on, and the code it returns is 0 if every stage
\* succeeded, else the code of the last stage (highest position) that did
\* not succeed, whatever the order in which the stages terminated.
C6_PipelineExitCode ==
    (ReturnedOk /\ Len(pipeline.commands) >= 2) =>
      /\ Len(children) = Len(pipeline.commands)
      /\ \A i \in 1..Len(children) : procs[children[i]].state = "reaped"
      /\ IF Failing = {} THEN last_result.code = 0
         ELSE IF StatusOf(LastFailing).signaled THEN last_result.code # 0
         ELSE last_result.code = StatusOf(LastFailing).code

\* a two-stage pipeline has returned: its first stage failed, its second
\* succeeded, and the first stage's code is what execute returned
C6_Witness ==
    /\ ReturnedOk
    /\ Len(pipeline.commands) = 2
    /\ StatusOf(1) = Exited(2)
    /\ StatusOf(2) = Exited(0)
    /\ last_result.code = 2

\* C7: when the process of a single-stage foreground command is killed by
\* a signal, execute returns a non-zero code; the code is 0 only when the
\* process exited normally with status 0.
C7_SignalIsFailure ==
    (ReturnedOk /\ IsSimple(pipeline) /\ ~pipeline.background) =>
      (last_result.code = 0 <=> StatusOf(1) = Exited(0))

\* C8: executing a single-stage pipeline with background = true spawns the
\* process, registers a Job for its pid in Running state, and returns 0
\* without waiting, so that the job is in the table for jobs, fg and bg.
C8_BackgroundRegistersJob ==
    (ReturnedOk /\ IsSimple(pipeline) /\ pipeline.background) =>
      /\ last_result.code = 0
      /\ procs[children[1]].state # "reaped"
      /\ \E j \in DOMAIN jobs :
            jobs[j].pid = children[1] /\ jobs[j].status = "Running"

YesHead ==
    /\ Len(pipeline.commands) = 2
    /\ pipeline.commands[1].program = <<"y">>
    /\ pipeline.commands[2].program = <<"h">>

ExecutingYesHead == YesHead /\ pc \in {"spawn", "wait"}

\* C9 as stated: executing `yes | head -n 1` terminates and returns exit
\* code 0.
C9_YesHeadReturnsZero ==
    /\ [](ReturnedOk /\ YesHead => last_result.code = 0)
    /\ (ExecutingYesHead ~> ~ExecutingYesHead)

\* C9 amended: executing `yes | head -n 1` terminates (execute returns, it
\* does not hang), and the code it returns is 1: stage 0 ends killed by
\* SIGPIPE once stage 1 has exited, which execute counts as a failure.
C9_YesHeadTerminatesWithOne ==
    /\ [](ReturnedOk /\ YesHead => last_result.code = 1)
    /\ (ExecutingYesHead ~> ~ExecutingYesHead)

\* `yes | head -n 1` has returned: yes was killed by the signal, head
\* exited with 0
C9_Witness ==
    /\ ReturnedOk
    /\ YesHead
    /\ StatusOf(1) = Signaled
    /\ StatusOf(2) = Exited(0)

\* C10: a pipeline whose background flag is set never blocks the main
\* thread: execute waits for none of its processes, be it single-stage or
\* multi-stage.
C10_BackgroundNeverWaits ==
    pipeline.background => pc \notin {"wait", "status"}

-----------------------------------------------------------------------------
(* Claims about the job table, checked under JobSpec *)

\* the status a job is to get for the exit status of its child
StatusForExit(st) ==
    IF success(st) THEN Completed(0)
    ELSE Failed(IF st.signaled THEN -1 ELSE st.code)

\* the step is a handle_sigchld that collects the terminated child of job j
SigchldCollects(j) ==
    /\ job_pc = "idle" /\ job_pc' = "idle" /\ monitors' = monitors
    /\ j \in DOMAIN jobs /\ j \in DOMAIN jobs'
    /\ jobs[j].status = Running
    /\ jobs[j].pid \in DOMAIN procs /\ procs[jobs[j].pid].state = "zombie"
    /\ procs'[jobs[j].pid].state = "reaped"
    /\ jobs_by_pid(jobs, jobs[j].pid) = {j}

\* C11: when handle_sigchld collects the exit of a child whose pid matches
\* a tracked job, the job becomes Completed(code) if the child exited with
\* status 0 and Failed(code) with the child's real non-zero code otherwise,
\* and it stays in the job table.
C11_SigchldRecordsExitStatus ==
    [][\A j \in DOMAIN jobs :
          SigchldCollects(j) =>
             jobs'[j].status = StatusForExit(procs[jobs[j].pid].status)]_vars

\* the changes of status that the job table allows
AllowedTransition(a, b) ==
    \/ a = b
    \/ a.kind = "Running" /\ b.kind \in {"Stopped", "Completed", "Failed"}
    \/ a.kind = "Stopped" /\ b.kind \in {"Running", "Completed", "Failed"}

\* C12: a job's status changes only from Running to Stopped, Completed or
\* Failed and from Stopped to Running, Completed or Failed; a Completed or
\* Failed status is never changed again by any operation, and a job that
\* enters the table is Running.
C12_StatusTransitions ==
    [][/\ \A j \in DOMAIN jobs \cap DOMAIN jobs' :
             AllowedTransition(jobs[j].status, jobs'[j].status)
       /\ \A j \in DOMAIN jobs' \ DOMAIN jobs : jobs'[j].status = Running]_vars

\* C13: a job leaves the job table only after its completion was reported
\* to the user: cleanup_completed_jobs never evicts a Completed or Failed
\* job about which nothing was printed.
C13_EvictedOnlyAfterReport ==
    [][\A j \in DOMAIN jobs \ DOMAIN jobs' : j \in reported]_vars

\* C14: bring_to_foreground has sent the continue signal and marked the
\* job as the foreground job when it blocks, and it blocks exactly until
\* the pid changes state: it returns when the process has been reaped or
\* has terminated, and also when the process is stopped again.
C14_ForegroundWaitUntilStateChange ==
    job_pc = "wait_for_job" =>
       /\ foreground_job \in DOMAIN jobs
       /\ LET pid == jobs[foreground_job].pid IN
            (ENABLED WaitForJob) <=>
               \/ pid \notin DOMAIN Unreaped(procs)
               \/ procs[pid].state \in {"zombie", "stopped"}

\* C15: the job ids handed out are strictly increasing, so no id is handed
\* out twice, not even after its job was evicted, and every job of the
\* table sits under an id that was handed out.
C15_JobIdsStrictlyIncreasing ==
    /\ \A i, k \in 1..Len(issued) : i < k => issued[i] < issued[k]
    /\ \A j \in DOMAIN jobs : \E i \in 1..Len(issued) : issued[i] = j

\* a job was registered after the job of an earlier id was evicted
C15_Witness ==
    /\ Len(issued) >= 2
    /\ issued[1] \notin DOMAIN jobs
    /\ issued[2] \in DOMAIN jobs
    /\ jobs[issued[2]].status = Running

-----------------------------------------------------------------------------
(* Claims about the interrupt flag, checked under Spec *)

\* C16: was_interrupted consumes the flag at most once: it returns true
\* only when the flag was set at its load, the call that returns true
\* leaves the flag cleared, and only an arriving interrupt sets the flag
\* again, so that a second call with no interrupt in between returns false.
C16_FlagConsumedAtMostOnce ==
    [][/\ (pc = "was_interrupted" /\ pc' = "store") => INTERRUPT_RECEIVED
       /\ (pc = "store" /\ pc' # "store") => ~INTERRUPT_RECEIVED'
       /\ (~INTERRUPT_RECEIVED /\ INTERRUPT_RECEIVED') =>
             (handler = "idle" /\ handler' = "println")
       /\ (pc = "was_interrupted" /\ pc' = "input") => ~INTERRUPT_RECEIVED]_vars

\* a call has returned true and left the flag cleared
C16_Witness ==
    /\ pc = "read"
    /\ was_interrupted
    /\ ~INTERRUPT_RECEIVED
    /\ handler = "idle"

\* C17: the interrupt handler only sets the flag and writes a newline: a
\* step of the handler takes no lock, the standard-output lock included,
\* changes nothing of the job table and never stops the main thread.
C17_HandlerOnlySetsFlag ==
    [][handler' # handler =>
          UNCHANGED << stdout_lock, jobs, last_job_id, jobVars, pc, run_result >>]_vars

\* positions of the main thread at which the line read is being processed
Processing ==
    pc \in {"input", "println", "execute_command", "simple", "status", "spawn", "wait"}

\* C18: every line read is followed by exactly one check of the flag; when
\* the flag is set at the check the line is discarded, neither parsed nor
\* executed, and the flag is cleared; when it is not set the line is
\* processed.
C18_InterruptedLineDiscarded ==
    [][/\ (pc' = "was_interrupted" /\ pc # pc') => (pc = "read" /\ line' \in Lines \cup {ExitLine})
       /\ (pc = "read" /\ pc # pc') => pc' = "was_interrupted"
       /\ (pc = "was_interrupted" /\ pc # pc') =>
             pc' = (IF INTERRUPT_RECEIVED THEN "store" ELSE "input")
       /\ (pc = "store" /\ pc # pc') =>
             /\ pc' = "read"
             /\ ~INTERRUPT_RECEIVED'
             /\ UNCHANGED << pipeline, procs, children, last_result, run_result >>
       /\ Processing => ~was_interrupted]_vars

\* a line was read while the flag was set and has been discarded unparsed
C18_Witness ==
    /\ pc = "read"
    /\ was_interrupted
    /\ lines_read = 1
    /\ line \in Lines
    /\ pipeline = NoPipeline
    /\ procs = <<>>

-----------------------------------------------------------------------------
(* Claims about what parse keeps of its input, checked under ParserSpec *)

\* the token `|` outside quotes (a quoted | is the word << "|" >>)
PipeToken == << "PIPE" >>

AddWord(out, tok) == IF tok = <<>> THEN out ELSE Append(out, tok)

\* the token sequence of a text: words are separated by blanks, an unquoted
\* `|` is a token of its own, quotes group and are removed
RECURSIVE Lex(_, _, _, _, _)
Lex(s, i, quote, tok, out) ==
    IF i > Len(s) THEN AddWord(out, tok)
    ELSE LET c == s[i] IN
         IF quote # ""
         THEN (IF c = quote THEN Lex(s, i + 1, "", tok, out)
               ELSE Lex(s, i + 1, quote, Append(tok, c), out))
         ELSE IF c \in {"\"", "'"} THEN Lex(s, i + 1, c, tok, out)
         ELSE IF c = " " THEN Lex(s, i + 1, "", <<>>, AddWord(out, tok))
         ELSE IF c = "|" THEN Lex(s, i + 1, "", <<>>, Append(AddWord(out, tok), PipeToken))
         ELSE Lex(s, i + 1, "", Append(tok, c), out)

TokensOf(s) == Lex(s, 1, "", <<>>, <<>>)

\* a stage rebuilt as its program followed by its arguments
StageWords(cmd) == AddWord(<<>>, cmd.program) \o cmd.args

\* the stages rebuilt and joined with ` | `
RECURSIVE Rebuilt(_, _)
Rebuilt(cs, n) ==
    IF n = 0 THEN <<>>
    ELSE IF n = 1 THEN StageWords(cs[1])
    ELSE Rebuilt(cs, n - 1) \o << PipeToken >> \o StageWords(cs[n])

Unquoted(n) == QuoteAfter(input, n - 1) = ""

NoRedirectionOperator ==
    \A n \in 1..Len(input) : input[n] \in {"<", ">"} => ~Unquoted(n)

\* C19: for every input with no redirection operator and no background
\* marker, the stages rebuilt as program and arguments and joined with
\* ` | ` have the token sequence of the input.
C19_RoundTrip ==
    (parsed.done /\ NoRedirectionOperator /\ ~EndsWithUnquotedAmp) =>
       Rebuilt(Stages, NumStages) = TokensOf(input)

\* the character at n belongs to the target of a redirection operator: it
\* follows an unquoted `<` or `>` after blanks, inside the run of quoted
\* characters and of characters that end no file name
InTarget(n) ==
    \E k \in 1..(n - 1) :
       /\ input[k] \in {"<", ">"} /\ Unquoted(k)
       /\ \E m \in (k + 1)..n :
             /\ \A j \in (k + 1)..(m - 1) : input[j] = " "
             /\ \A j \in m..n : ~Unquoted(j) \/ ~StopsFilename(input[j])

\* the character at n is part of a token outside quotes that is neither
\* blank, nor a quote, nor pipe or redirection syntax
TokenChar(n) ==
    /\ Unquoted(n)
    /\ input[n] \notin {" ", "|", "<", ">", "\"", "'"}
    /\ ~InTarget(n)

\* C20 as stated: an input with a token outside quotes that is not solely
\* redirection or pipe syntax parses to at least one stage.
C20_TokenGivesStage ==
    (parsed.done /\ \E n \in 1..Len(input) : TokenChar(n)) => NumStages >= 1

\* C20: an input with a token outside quotes that is not solely
\* redirection or pipe syntax, and is not the background marker (the
\* unquoted `&` that ends the input) either, parses to at least one stage.
C20_WordGivesStage ==
    (parsed.done /\ \E n \in 1..Len(input) :
                       TokenChar(n) /\ ~(n = Len(input) /\ input[n] = "&"))
       => NumStages >= 1

\* an input of several tokens, redirection and pipe syntax among them,
\* has been parsed to its stages
C20_Witness ==
    /\ parsed.done
    /\ \E n \in 1..Len(input) : TokenChar(n) /\ input[n] = "a"
    /\ \E n \in 1..Len(input) : input[n] = ">" /\ Unquoted(n)
    /\ \E n \in 1..Len(input) : input[n] = "|" /\ Unquoted(n)
    /\ NumStages >= 1

\* the operator character at k is the last of its operator (the second `>`
\* of `>>`, or a single `<` or `>`)
OperatorEndsAt(k) ==
    /\ input[k] \in {"<", ">"} /\ Unquoted(k)
    /\ ~(input[k] = ">" /\ k < Len(input) /\ input[k + 1] = ">"
         /\ ~(k > 1 /\ input[k - 1] = ">" /\ Unquoted(k - 1)))

\* first position after k that holds no blank
RECURSIVE AfterBlanks(_)
AfterBlanks(k) ==
    IF k < Len(input) /\ input[k + 1] = " " THEN AfterBlanks(k + 1) ELSE k + 1

\* some redirection operator is followed by no file name
MalformedTarget ==
    \E k \in 1..Len(input) :
       /\ OperatorEndsAt(k)
       /\ LET m == AfterBlanks(k) IN
            m > Len(input) \/ (Unquoted(m) /\ StopsFilename(input[m]))

\* C21: parse reports a ParseError when a redirection operator has a
\* malformed target (no file name after the operator, as in `a >`), and it
\* fails on no other input, an unterminated quote included.
C21_ErrorIffMalformedTarget ==
    parsed.done => (~parsed.ok <=> MalformedTarget)

\* the input holds one operator `2>>` with a file name after it: the `2`
\* at k starts a token, k is the only 2, the two `>` after it are the only
\* operator characters, and there are no quotes
ErrAppendAt(k) ==
    /\ k + 3 <= Len(input)
    /\ input[k] = "2" /\ input[k + 1] = ">" /\ input[k + 2] = ">"
    /\ k = 1 \/ input[k - 1] = " "
    /\ \A n \in 1..Len(input) :
          /\ input[n] = "2" => n = k
          /\ input[n] \in {"<", ">"} => n \in {k + 1, k + 2}
          /\ input[n] \notin {"\"", "'"}
    /\ AfterBlanks(k + 2) <= Len(input)
    /\ input[AfterBlanks(k + 2)] = "a"

HasTwo(word) == \E n \in 1..Len(word) : word[n] = "2"

\* C22: an unquoted `2>>` is parsed as the append form of the
\* error-output redirection: the redirection it yields is ErrorAppend, not
\* Append or ErrorOutput, and the `2` is left in no program or argument.
C22_ErrorAppendParsed ==
    (parsed.done /\ \E k \in 1..Len(input) : ErrAppendAt(k)) =>
       \A i \in 1..NumStages :
          /\ ~HasTwo(Stages[i].program)
          /\ \A j \in 1..Len(Stages[i].args) : ~HasTwo(Stages[i].args[j])
          /\ \A j \in 1..Len(Stages[i].redirections) :
                Stages[i].redirections[j].kind \in {"ErrorAppend", "Pipe"}

\* an operator `<`, `>` or `>>` starts at k (the second `>` of `>>` starts
\* none)
RECURSIVE OpStartsAt(_)
OpStartsAt(k) ==
    /\ input[k] \in {"<", ">"}
    /\ ~(input[k] = ">" /\ k > 1 /\ input[k - 1] = ">" /\ OpStartsAt(k - 1))

OpStarts == {k \in 1..Len(input) : OpStartsAt(k)}

IsAppendAt(k) == input[k] = ">" /\ k < Len(input) /\ input[k + 1] = ">"

\* last position of the file name that starts at m
RECURSIVE NameEnd(_)
NameEnd(m) ==
    IF m < Len(input) /\ ~StopsFilename(input[m + 1]) THEN NameEnd(m + 1) ELSE m

NameStart(k) == AfterBlanks(IF IsAppendAt(k) THEN k + 1 ELSE k)

HasName(k) == NameStart(k) <= Len(input) /\ ~StopsFilename(input[NameStart(k)])

\* the redirection that the operator at k stands for
RedirectionAt(k) ==
    Redir(IF input[k] = "<" THEN "Input" ELSE IF IsAppendAt(k) THEN "Append" ELSE "Output",
          SubSeq(input, NameStart(k), NameEnd(NameStart(k))))

\* the part of the input between two `|` that position k lies in
SegmentOf(k) == Cardinality({j \in 1..(k - 1) : input[j] = "|"}) + 1

NumSegments == Cardinality({j \in 1..Len(input) : input[j] = "|"}) + 1

\* a character of a program or argument: no blank, no operator, no part
\* of a file name, not the background marker
WordChar(n) ==
    /\ input[n] \notin {" ", "|", "<", ">"}
    /\ ~InTarget(n)
    /\ ~(n = Len(input) /\ input[n] = "&")

\* the redirections of the operators of a set of positions, in source order
RECURSIVE InOrder(_)
InOrder(ks) ==
    IF ks = {} THEN <<>>
    ELSE LET k == CHOOSE x \in ks : \A y \in ks : x <= y
         IN << RedirectionAt(k) >> \o InOrder(ks \ {k})

FileRedirections(cmd) == SelectSeq(cmd.redirections, LAMBDA r : r.kind # "Pipe")

WordLength(cmd) ==
    Len(cmd.program) + SumOver([j \in 1..Len(cmd.args) |-> Len(cmd.args[j])], Len(cmd.args))

\* inputs on which `<`, `>` and `>>` are the only operators, each with a
\* file name, on commands that have a program: no quotes, no `>` right
\* after a 2, a word in every part between two `|`
PlainRedirections ==
    /\ \A n \in 1..Len(input) : input[n] \notin {"\"", "'"}
    /\ \A n \in 2..Len(input) : input[n] = ">" => input[n - 1] # "2"
    /\ \A k \in OpStarts : HasName(k)
    /\ \A g \in 1..NumSegments : \E n \in 1..Len(input) : WordChar(n) /\ SegmentOf(n) = g

\* C23: each operator `<`, `>`, `>>` yields exactly one redirection of the
\* matching variant with the file name after it as target; a stage holds
\* the redirections of its operators in source order, and the characters
\* of the targets are in no program or argument.
C23_OneRedirectionPerOperator ==
    (parsed.done /\ PlainRedirections) =>
       /\ NumStages = NumSegments
       /\ \A g \in 1..NumStages :
             /\ FileRedirections(Stages[g]) =
                   InOrder({k \in OpStarts : SegmentOf(k) = g})
             /\ WordLength(Stages[g]) =
                   Cardinality({n \in 1..Len(input) : WordChar(n) /\ SegmentOf(n) = g})

\* a stage with an input and an output redirection, in this order
C23_Witness ==
    /\ parsed.done /\ PlainRedirections
    /\ NumStages = 1
    /\ Len(FileRedirections(Stages[1])) = 2
    /\ Stages[1].program = << "a" >>
    /\ Stages[1].redirections[1] = Redir("Input", << "a" >>)
    /\ Stages[1].redirections[2] = Redir("Output", << "a" >>)

\* the state of parse after n iterations of its loop
RECURSIVE StateAfter(_, _)
StateAfter(chars, n) ==
    IF n = 0 THEN ParserInit
    ELSE LET s == StateAfter(chars, n - 1) IN
         IF s.i < Len(chars) /\ ~s.stop THEN ParseStep(chars, s) ELSE s

\* the loop is about to read, inside an open quote, a character that is
\* not the matching quote character
ReadsQuoted(s) ==
    /\ s.i < Len(input) /\ ~s.stop
    /\ s.in_quotes
    /\ input[s.i + 1] # s.quote_char

\* C24: while a quote is open, every character other than the matching
\* quote character (blank, `|`, `<`, `>`, `&` and the other quote character
\* included) is appended to the current token and nothing else happens: no
\* token or stage boundary, no redirection, no background marker.
C24_QuotedCharactersAreLiteral ==
    parsed.done =>
       \A n \in 0..Len(input) :
          LET s == StateAfter(input, n) IN
          ReadsQuoted(s) =>
             ParseStep(input, s) =
                [s EXCEPT !.token = Append(@, input[s.i + 1]), !.i = @ + 1]

\* the other quote character, a `|` and a final `&` were read inside a quote
C24_Witness ==
    /\ parsed.done
    /\ input = << "\"", "'", "|", "&", "\"" >>
    /\ NumStages = 1
    /\ Stages[1] = [program |-> << "'", "|", "&" >>, args |-> <<>>, redirections |-> <<>>]
    /\ ~parsed.background

\* the last word of a stage
LastWord(cmd) == IF cmd.args = <<>> THEN cmd.program ELSE cmd.args[Len(cmd.args)]

\* the state in which the loop of parse ends
FinalState == StateAfter(input, Len(input))

LastToken == TokensOf(input)[Len(TokensOf(input))]

\* C25: an input that ends inside an unterminated quote is no error: parse
\* returns Ok, and the characters collected since the last token boundary
\* are the final token of the last stage.  The quote is open in the state
\* the loop ends in (first part) and, for an input without redirection
\* operators, in the text itself (second part).
C25_UnterminatedQuoteFlushed ==
    parsed.done =>
       /\ (FinalState.in_quotes /\ FinalState.token # <<>>) =>
             /\ parsed.ok
             /\ NumStages >= 1
             /\ LastWord(Stages[NumStages]) = FinalState.token
       /\ (QuoteAfter(input, Len(input)) # "" /\ NoRedirectionOperator) =>
             /\ parsed.ok
             /\ (TokensOf(input) # <<>> /\ LastToken # PipeToken) =>
                   (NumStages >= 1 /\ LastWord(Stages[NumStages]) = LastToken)

\* the quote opened before `a|` is never closed
C25_Witness ==
    /\ parsed.done
    /\ input = << "a", " ", "\"", "a", "|" >>
    /\ parsed.ok
    /\ NumStages = 1
    /\ Stages[1].program = << "a" >>
    /\ Stages[1].args = << << "a", "|" >> >>

-----------------------------------------------------------------------------
(* Claims about the wiring and the spawn errors of Executor::execute,
   checked under Spec *)

HasInput(cmd) ==
    \E r \in 1..Len(cmd.redirections) : cmd.redirections[r].kind = "Input"

HasOutput(cmd) ==
    \E r \in 1..Len(cmd.redirections) : cmd.redirections[r].kind \in {"Output", "Append"}

\* Executor::execute is in its pipeline branch
InPipelineBranch == pc \in {"spawn", "wait"}

\* C26: in a multi-stage pipeline the input of every stage after the first
\* is the read end of the pipe that carries the output of the stage before
\* it, and the output of every stage but the last is a fresh pipe; the
\* redirections of a stage are applied after this wiring, so a stage with
\* an explicit redirection has the file in place of the pipe or inherited
\* stream.
C26_PipelineWiring ==
    InPipelineBranch =>
       \A k \in 1..Len(children) :
          LET cmd == pipeline.commands[k]
              p == procs[children[k]]
          IN /\ HasInput(cmd) => p.stdin = File
             /\ (~HasInput(cmd) /\ k = 1) => p.stdin = Inherit
             /\ (~HasInput(cmd) /\ k > 1) =>
                   /\ p.stdin.kind = "pipe"
                   /\ pipes[p.stdin.id].writer = children[k - 1]
             /\ HasOutput(cmd) => p.stdout = File
             /\ (~HasOutput(cmd) /\ k = Len(pipeline.commands)) => p.stdout = Inherit
             /\ (~HasOutput(cmd) /\ k < Len(pipeline.commands)) =>
                   /\ p.stdout.kind = "pipe"
                   /\ pipes[p.stdout.id].writer = children[k]

\* the stage that execute is about to spawn
StageToSpawn == pipeline.commands[IF pc = "simple" THEN 1 ELSE idx + 1]

\* the step is the executor's attempt to spawn a stage
SpawnAttempt == pc \in {"spawn", "simple"} /\ (pc' # pc \/ children' # children)

\* no process was created, the error is returned, and the processes of the
\* earlier stages are as they were
SpawnFailed ==
    /\ procs' = procs
    /\ children' = children
    /\ last_result'.kind = "Err"

\* one process was created and the earlier ones are as they were
SpawnSucceeded ==
    /\ Len(children') = Len(children) + 1
    /\ \A k \in 1..Len(children) :
          children'[k] = children[k] /\ procs'[children[k]] = procs[children[k]]
    /\ last_result'.kind # "Err"

\* C27: when stage i cannot be resolved or spawned, or one of its
\* redirection targets cannot be opened, no process is created for it and
\* the error is reported; the stages spawned before it are not killed or
\* touched and keep running.  Every attempt to spawn a stage ends in one of
\* the two ways, and a stage that cannot be spawned (it has no program) in
\* the first.
C27_FailedStageLeavesOthersAlone ==
    [][SpawnAttempt =>
          /\ SpawnFailed \/ SpawnSucceeded
          /\ StageToSpawn.program = <<>> => SpawnFailed]_vars

\* the second stage could not be spawned while the first is still running
C27_Witness ==
    /\ last_result.kind = "Err"
    /\ Len(pipeline.commands) = 2
    /\ Len(children) = 1
    /\ procs[children[1]].state = "running"

-----------------------------------------------------------------------------
(* Claims about the drop of JobControl and about continue_in_background,
   checked under JobSpec *)

SignalledJobs == {s.job_id : s \in signalled}

\* C28: on the drop of JobControl the termination signal is sent to every
\* job whose status is Running or Stopped and to no job whose status is
\* Completed or Failed; a signal that cannot be delivered does not stop the
\* remaining jobs from being signalled.
C28_DropSignalsUnfinishedJobs ==
    [][(job_pc = "idle" /\ job_pc' = "dropped") =>
          SignalledJobs' =
             {j \in DOMAIN jobs : jobs[j].status.kind \in {"Running", "Stopped"}}]_vars

\* the drop has signalled two jobs, and the signal of one could not be
\* delivered
C28_Witness ==
    /\ job_pc = "dropped"
    /\ \E s, t \in signalled : ~s.delivered /\ t.delivered

\* the process of job j is stopped
ProcessStopped(j) ==
    /\ jobs[j].pid \in DOMAIN Unreaped(procs)
    /\ procs[jobs[j].pid].state = "stopped"

\* the process that has the pid of job j is the child spawned for job j: no
\* later job got the same pid
OwnsPid(j) == \A k \in DOMAIN jobs : jobs[k].pid = jobs[j].pid => k <= j

\* continue_in_background(j) returns; it has resumed the stopped process of
\* job j, and the job table has that job as Running
ContinuedInBackground(j) ==
    /\ ContinueInBackground(j)
    /\ job_pc' = "idle"
    /\ ProcessStopped(j) =>
          /\ procs'[jobs[j].pid].state = "running"
          /\ OwnsPid(j) => jobs'[j].status = Running

-----------------------------------------------------------------------------
(* Claims about the resolution of executables, checked under ResolverSpec *)

\* the directories searched for a name without `/`, in the order of the search
SearchDirs == common_paths \o (IF path_var.set THEN path_var.dirs ELSE <<>>)

\* the k-th directory of the search has the name as an executable file
MatchesAt(k) == join(SearchDirs[k], command) \in executables

\* the name itself is an executable file
MatchesDirectly == PathBuf_from(command) \in executables

\* neither the name itself, when it has a `/`, nor a directory of the search
\* gives an executable file
NothingMatches ==
    IF contains_separator(command) THEN ~MatchesDirectly
    ELSE \A k \in 1..Len(SearchDirs) : ~MatchesAt(k)

\* C30: the resolution tries the name itself when it has a path separator,
\* then the standard directories, then the directories of PATH, and returns
\* the first executable match; when nothing matches it returns the bare
\* name instead of failing, for every name, one with a separator included.
C30_FirstMatchOrBareName ==
    resolved.done =>
       /\ resolved.found.some
       /\ (contains_separator(command) /\ MatchesDirectly) =>
             resolved.found.path = PathBuf_from(command)
       /\ ~contains_separator(command) =>
             \A k \in 1..Len(SearchDirs) :
                (MatchesAt(k) /\ \A m \in 1..(k - 1) : ~MatchesAt(m)) =>
                   resolved.found.path = join(SearchDirs[k], command)
       /\ NothingMatches => resolved.found.path = PathBuf_from(command)

-----------------------------------------------------------------------------
(* Claims about the monitor threads, the job mutex and handle_sigchld,
   checked under JobSpec and JobFairSpec *)

\* the process of background job j has exited and its monitor thread is
\* still in child.wait()
BackgroundJobExited(j) ==
    /\ job_pc # "dropped"
    /\ j \in DOMAIN jobs
    /\ \E m \in monitors :
          /\ m.job_id = j
          /\ m.pid \in DOMAIN Unreaped(procs)
          /\ procs[m.pid].state = "zombie"

\* the entry of job j has a terminal status, or was evicted with one, or the
\* table is gone
HasTerminalStatus(j) ==
    \/ job_pc = "dropped"
    \/ j \notin DOMAIN jobs
    \/ jobs[j].status.kind \in {"Completed", "Failed"}

\* C31: after the process of a background job has exited, the entry of the
\* job eventually gets a terminal status (Completed or Failed), whether the
\* monitor thread or the wait-for-any-child of the main loop reaps the
\* process first.
C31_ExitedJobGetsTerminalStatus ==
    \A j \in 1..MaxJobs : BackgroundJobExited(j) ~> HasTerminalStatus(j)

\* the thread that holds the job mutex is not one that is still in its
\* child.wait()
HolderNotWaiting == \A m \in monitors : m.job_id # job_mutex

\* C32: every mutation of the job table (insert on spawn, status update
\* after a foreground wait, status update on reap, eviction) is performed
\* while the job mutex is held, and the mutex is never held while a thread
\* is blocked waiting for a process.
C32_TableMutatedUnderMutex ==
    /\ []HolderNotWaiting
    /\ [][jobs' # jobs => job_mutex # Unlocked]_vars

\* the children that have terminated and wait to be collected
Zombies == {p \in DOMAIN procs : procs[p].state = "zombie"}

\* the pid is the pid of no job in the table
Untracked(p) == \A j \in DOMAIN jobs : jobs[j].pid # p

\* handle_sigchld returns with a child left to collect, or with a change to
\* a job whose pid no collected child had
SigchldAmiss ==
    /\ HandleSigchld
    /\ \/ \E p \in DOMAIN procs' : procs'[p].state = "zombie"
       \/ \E j \in DOMAIN jobs : jobs[j].pid \notin Zombies /\ jobs'[j] # jobs[j]
       \/ DOMAIN jobs' # DOMAIN jobs
       \/ Zombies = {} /\ procs' # procs

\* C33: handle_sigchld never blocks and always terminates: it repeats the
\* non-blocking wait-for-any-child until no status change is pending (one
\* iteration for each terminated child); called when no child has changed
\* it changes nothing, and a collected pid that matches no tracked job
\* leaves every job unchanged.
C33_SigchldDrainsAndIgnoresUnknown ==
    job_pc = "idle" => ENABLED HandleSigchld /\ ~ENABLED SigchldAmiss

\* handle_sigchld is about to collect a child that is no job while a job
\* is running
C33_Witness ==
    /\ job_pc = "idle"
    /\ \E p \in Zombies : Untracked(p)
    /\ \E j \in DOMAIN jobs :
          /\ jobs[j].status = Running
          /\ jobs[j].pid \in DOMAIN Unreaped(procs)
          /\ procs[jobs[j].pid].state = "running"
    /\ ENABLED (HandleSigchld /\ jobs' = jobs /\ procs' # procs)

-----------------------------------------------------------------------------
(* Claims about the opening of redirection targets, checked under Spec *)

\* C34: for every stage i of a pipeline, the files named by the
\* redirections of stage i are opened or created after all stages before i
\* have been spawned and before stage i is spawned; no target of a later
\* stage is opened before the spawn of an earlier stage.
C34_OpenedRightBeforeSpawn ==
    \A e \in 1..Len(opens) : opens[e].spawned = opens[e].stage - 1

\* the target of the second stage was opened with the first stage spawned,
\* and the second stage is spawned too
C34_Witness ==
    /\ Len(children) = 2
    /\ \E e \in 1..Len(opens) : opens[e].stage = 2 /\ opens[e].spawned = 1

\* the target of the last redirection of the stream in the stage, NoFile
\* when there is none
RECURSIVE LastTarget(_, _, _)
LastTarget(redirs, n, stream) ==
    IF n = 0 THEN NoFile
    ELSE IF redirs[n].kind # "Pipe" /\ stream_of(redirs[n]) = stream THEN redirs[n].target
    ELSE LastTarget(redirs, n - 1, stream)

\* the opens of stage k, in the order they were made
OpensOfStage(k) == SelectSeq(opens, LAMBDA e : e.stage = k)

\* the redirections of a stage that name a file, in source order
NamedTargets(cmd) == SelectSeq(cmd.redirections, LAMBDA r : r.kind # "Pipe")

\* C35: when a stage carries several redirections for the same stream they
\* are applied in source order and the last one determines the stream the
\* process gets, while every named target is still opened (created or
\* truncated for the truncating forms) in that order.
C35_LastRedirectionWins ==
    \A k \in 1..Len(children) :
       LET cmd == pipeline.commands[k]
           named == NamedTargets(cmd)
           opened == OpensOfStage(k)
       IN /\ \A stream \in {"stdin", "stdout", "stderr"} :
                procs[children[k]].files[stream] =
                   LastTarget(cmd.redirections, Len(cmd.redirections), stream)
          /\ Len(opened) = Len(named)
          /\ \A n \in 1..Len(named) :
                /\ opened[n].path = named[n].target
                /\ opened[n].mode = IF named[n].kind = "Input" THEN "read"
                                    ELSE IF named[n].kind \in {"Output", "ErrorOutput"}
                                    THEN "truncate" ELSE "append"

\* a process runs whose standard output was redirected twice: both files
\* were truncated and the process writes to the second
C35_Witness ==
    /\ Len(children) = 1
    /\ Len(opens) = 2
    /\ opens[1].path # opens[2].path
    /\ opens[1].mode = "truncate" /\ opens[2].mode = "truncate"
    /\ procs[children[1]].files.stdout = opens[2].path
    /\ procs[children[1]].state = "running"

-----------------------------------------------------------------------------
(* Claims about the termination of CommandParser::parse, checked under
   ParserSpec *)

\* the loop of parse goes on from state s
LoopContinues(s) == s.i < Len(input) /\ ~s.stop

\* C36: parse terminates on every input: each iteration of the scanning
\* loop, the redirection branches with their whitespace and file name loops
\* included, strictly advances the index or breaks, and the index never
\* exceeds the length of the input, so that every character read is one of
\* the input; the loop is over after at most one iteration for each
\* character.
C36_ParseTerminates ==
    parsed.done =>
       /\ \A n \in 0..Len(input) :
             LET s == StateAfter(input, n) IN
             /\ s.i <= Len(input)
             /\ LoopContinues(s) =>
                   LET t == ParseStep(input, s) IN
                   /\ t.i > s.i \/ t.stop
                   /\ t.i <= Len(input)
                   /\ input[s.i + 1] \in {"<", ">"} =>
                         LET from == SkipWhitespace(input, s.i + RedirectionBranch(input, s.i).skip)
                         IN /\ s.i < from /\ from <= FilenameEnd(input, from)
                            /\ FilenameEnd(input, from) <= Len(input)
       /\ ~LoopContinues(StateAfter(input, Len(input)))

\* an iteration at a redirection operator went over the operator, a blank
\* and a file name that ends the input
C36_Witness ==
    /\ parsed.done
    /\ \E n \in 0..Len(input) :
          LET s == StateAfter(input, n) IN
          /\ LoopContinues(s)
          /\ ~s.in_quotes
          /\ input[s.i + 1] \in {"<", ">"}
          /\ s.i + 2 <= Len(input)
          /\ is_whitespace(input[s.i + 2])
          /\ ParseStep(input, s).i = Len(input)
          /\ ParseStep(input, s).i >= s.i + 3

-----------------------------------------------------------------------------
(* Claims about interrupts during a command, checked under Spec *)

\* C37: a line is discarded by the read loop only if an interrupt arrived
\* while that line was being read; an interrupt delivered while the
\* previous command was executing does not make the next line be dropped.
\* The loop discards the line it has read when it finds the flag set (C18):
\* the flag it finds was raised during the read exactly when no flag is
\* pending at the moment the loop comes back to read_line.
C37_NoInterruptPendingAtRead ==
    [][(pc # "read" /\ pc' = "read") => ~INTERRUPT_RECEIVED']_vars

\* C38: when stage i of a multi-stage pipeline fails to be created,
\* execute returns the error at once: no stage after i is spawned, and the
\* stages already spawned are not waited on (execute never collects their
\* exit statuses).
C38_ErrorReturnsAtOnce ==
    (last_result.kind = "Err" /\ Len(pipeline.commands) >= 2) =>
       /\ pc = "exited"
       /\ Len(children) < Len(pipeline.commands)
       /\ \A k \in 1..Len(children) : procs[children[k]].state # "reaped"

\* the second stage could not be created; the first has terminated since
\* and its status was not collected
C38_Witness ==
    /\ last_result.kind = "Err"
    /\ Len(pipeline.commands) = 2
    /\ Len(children) = 1
    /\ procs[children[1]].state = "zombie"

-----------------------------------------------------------------------------
(* Claims about bring_to_foreground and continue_in_background, checked
   under JobSpec *)

\* the job id the call with this argument is about
CalledFor(arg) == job_id_of(arg, last_job_id)

\* the job is in the table and no process has its pid: the kill fails
KillFails(arg) ==
    /\ CalledFor(arg) \in DOMAIN jobs
    /\ jobs[CalledFor(arg)].pid \notin DOMAIN Unreaped(procs)

\* the step sends a signal or changes the table, the foreground owner or
\* the last job id, or leaves the caller waiting
TouchesJobs ==
    \/ procs' # procs
    \/ jobs' # jobs
    \/ foreground_job' # foreground_job
    \/ last_job_id' # last_job_id
    \/ job_pc' # "idle"

\* C39: bring_to_foreground and continue_in_background with a job id that
\* is not in the table send no signal, change nothing (job statuses,
\* foreground owner and last job id) and return Ok; if sending the continue
\* signal fails, the call returns an error with the foreground owner and
\* every job status unchanged.
C39_UnknownJobAndFailedKill ==
    job_pc = "idle" =>
       \A arg \in 0..MaxJobs :
          /\ (CalledFor(arg) \notin DOMAIN jobs \/ KillFails(arg)) =>
                /\ ~ENABLED (BringToForeground(arg) /\ TouchesJobs)
                /\ ~ENABLED (ContinueInBackground(arg) /\ TouchesJobs)
          /\ CalledFor(arg) \notin DOMAIN jobs =>
                call_result(signal_outcome(jobs, procs, CalledFor(arg))) = "Ok"
          /\ KillFails(arg) =>
                call_result(signal_outcome(jobs, procs, CalledFor(arg))) = "Err"

\* one job id is not in the table, the process of another job is gone, and
\* a third job owns the foreground from an earlier call
C39_Witness ==
    /\ job_pc = "idle"
    /\ foreground_job # NoJob
    /\ \E a, b \in 1..MaxJobs :
          /\ a \notin DOMAIN jobs
          /\ KillFails(b)
          /\ foreground_job # b
          /\ ENABLED (BringToForeground(b) /\ ~TouchesJobs)

\* the call that was waiting returns to the main loop
WaitReturns == job_pc \in {"wait_for_job", "wait_for_foreground_job"} /\ job_pc' = "idle"

\* C40: whenever the main loop is back at reading input, no job is recorded
\* as owning the foreground: after a foreground wait or bring_to_foreground
\* returns, the foreground owner is cleared, and a job whose process was
\* reaped by that wait no longer has status Running.
C40_ForegroundClearedAfterWait ==
    /\ [](job_pc = "idle" => foreground_job = NoJob)
    /\ [][WaitReturns =>
             /\ foreground_job' = NoJob
             /\ procs' # procs => jobs'[foreground_job].status # Running]_vars

====
